---- MODULE Spec2Model ----
(***************************************************************************)
(* xzip: the exploder (xzip/explode.py) and the reconstituting read path   *)
(* (xzip/fs.py).  Archives, sidecars and blobs are byte sequences; a byte  *)
(* is a number in 0..255 and every record is packed little-endian with the *)
(* widths of its struct format.                                            *)
(***************************************************************************)
EXTENDS Integers, Naturals, Sequences, FiniteSets, TLC

VARIABLES
    isdir,          \* which of BASE/meta, BASE/data exist
    sidecars,       \* BASE/meta: basename -> [jump, stream, dir]
    stats,          \* BASE/meta: basename -> st_mode, st_uid, st_gid of its
                    \* .dir, .stream and .jump file
    blobs,          \* BASE/data: blob path -> content
    writes,         \* blob path -> number of times it was opened for writing
    exploded,       \* <<basename, depth>> of every completed process_zip run
    runs,           \* number of process_zip runs so far
    opens,          \* number of open() calls so far
    exploded_info,  \* ExplodedZip.__exploded_info: basename -> ExplodedInfo
    file,           \* the File behind the open handle, or NoFile
    sequential,     \* no seek was made on the handle since open()
    result,         \* outcome of the last operation
    handles,        \* ExplodedZip.__handles: fh -> the (lock, reader) pair
    objs,           \* the (lock, reader) pairs alive, by identity
    fh,             \* ExplodedZip.__fh
    fh_lock,        \* holder of ExplodedZip.__fh_lock, 0 when free
    pc              \* thread -> where it is in the handler it runs

vars == <<isdir, sidecars, stats, blobs, writes, exploded, runs, opens,
          exploded_info, file, sequential, result,
          handles, objs, fh, fh_lock, pc>>

\* the state of the threaded handlers of ExplodedZip
srvvars == <<handles, objs, fh, fh_lock, pc>>

fsvars == <<isdir, sidecars, stats, blobs, writes, exploded, runs>>

----------------------------------------------------------------------------
(* Bounds of the model *)

MaxDepth == 1
MaxRead == 3
SeekSlack == 1
MaxRuns == 2
MaxOpens == 1
MaxThreads == 2
MaxHandles == 2
MaxPutRuns == 3
MaxEntries == 5
MaxOffset == 6
MaxRegOpens == 3
MaxComment == 24

Depths == 0..MaxDepth
Threads == 1..MaxThreads
ReadCounts == {1, MaxRead, 40 + MaxRead}

----------------------------------------------------------------------------
(* Bytes and struct packing *)

Min(a, b) == IF a < b THEN a ELSE b

Max(a, b) == IF a > b THEN a ELSE b

RECURSIVE Pack(_, _)
Pack(v, w) == IF w = 0 THEN <<>> ELSE <<v % 256>> \o Pack(v \div 256, w - 1)

RECURSIVE Unpack(_)
Unpack(b) == IF b = <<>> THEN 0 ELSE Head(b) + 256 * Unpack(Tail(b))

RECURSIVE Zeros(_)
Zeros(n) == IF n <= 0 THEN <<>> ELSE <<0>> \o Zeros(n - 1)

\* file.read(n) at position pos: short at the end of the file
FileRead(f, pos, n) ==
    IF pos >= Len(f) \/ n <= 0 THEN <<>>
    ELSE SubSeq(f, pos + 1, Min(pos + n, Len(f)))

\* bytes[i:j] of Python: a negative bound counts from the end
Slice(b, i, j) ==
    LET lo == IF i < 0 THEN Max(Len(b) + i, 0) ELSE Min(i, Len(b))
        hi == IF j < 0 THEN Max(Len(b) + j, 0) ELSE Min(j, Len(b))
    IN  IF lo >= hi THEN <<>> ELSE SubSeq(b, lo + 1, hi)

\* bytes.rfind(marker): the greatest 0-based index, or -1
RFind(b, marker) ==
    LET hits == {i \in 0..(Len(b) - Len(marker)) :
                    SubSeq(b, i + 1, i + Len(marker)) = marker}
    IN  IF hits = {} THEN -1 ELSE CHOOSE i \in hits : \A j \in hits : j <= i

\* flag & 0b1000
Bit3(flag) == (flag \div 8) % 2 = 1

----------------------------------------------------------------------------
(* Record layouts *)

CENTRAL_DIR_marker == <<80, 75, 1, 2>>
END_OF_DIR_marker == <<80, 75, 5, 6>>
LOCAL_HEADER_marker == <<80, 75, 3, 4>>
DATA_DESCRIPTOR_marker == <<80, 75, 7, 8>>

CENTRAL_DIR_size == 46
END_OF_DIR_size == 22
LOCAL_HEADER_size == 30
DATA_DESCRIPTOR_size == 12
STREAM_ITEM_size == 51
JUMP_ITEM_size == 16
ZIP_STREAM_ITEM_size == 30
SHA_size == 20
SEARCH_WINDOW == 65536

\* Python's negative slice bound raw_header[:HEADER_DIFF]
HEADER_DIFF == ZIP_STREAM_ITEM_size - STREAM_ITEM_size

\* END_OF_DIR.unpack: '<4s4H2LH'
END_OF_DIR_unpack(b) ==
    [signature        |-> SubSeq(b, 1, 4),
     total_entries    |-> Unpack(SubSeq(b, 11, 12)),
     directory_size   |-> Unpack(SubSeq(b, 13, 16)),
     directory_offset |-> Unpack(SubSeq(b, 17, 20)),
     comment_len      |-> Unpack(SubSeq(b, 21, 22))]

\* CENTRAL_DIR.unpack: '<4s6H3L5H2L'
CENTRAL_DIR_unpack(b) ==
    [signature       |-> SubSeq(b, 1, 4),
     flag            |-> Unpack(SubSeq(b, 9, 10)),
     compressed_size |-> Unpack(SubSeq(b, 21, 24)),
     raw_size        |-> Unpack(SubSeq(b, 25, 28)),
     filename_len    |-> Unpack(SubSeq(b, 29, 30)),
     extra_field_len |-> Unpack(SubSeq(b, 31, 32)),
     comment_len     |-> Unpack(SubSeq(b, 33, 34)),
     offset          |-> Unpack(SubSeq(b, 43, 46))]

\* LOCAL_HEADER.unpack: '<4s5H3L2H'
LOCAL_HEADER_unpack(b) ==
    [signature       |-> SubSeq(b, 1, 4),
     needed_version  |-> Unpack(SubSeq(b, 5, 6)),
     flag            |-> Unpack(SubSeq(b, 7, 8)),
     compression     |-> Unpack(SubSeq(b, 9, 10)),
     mod_time        |-> Unpack(SubSeq(b, 11, 12)),
     mod_date        |-> Unpack(SubSeq(b, 13, 14)),
     crc             |-> Unpack(SubSeq(b, 15, 18)),
     compressed_size |-> Unpack(SubSeq(b, 19, 22)),
     raw_size        |-> Unpack(SubSeq(b, 23, 26)),
     filename_len    |-> Unpack(SubSeq(b, 27, 28)),
     extra_field_len |-> Unpack(SubSeq(b, 29, 30))]

\* STREAM_ITEM.pack(*(header + (len(descriptor), sha.digest()))): '<4s5H3L2HB20s'
STREAM_ITEM_pack(h, descriptor_len, sha) ==
    h.signature \o Pack(h.needed_version, 2) \o Pack(h.flag, 2)
        \o Pack(h.compression, 2) \o Pack(h.mod_time, 2) \o Pack(h.mod_date, 2)
        \o Pack(h.crc, 4) \o Pack(h.compressed_size, 4) \o Pack(h.raw_size, 4)
        \o Pack(h.filename_len, 2) \o Pack(h.extra_field_len, 2)
        \o Pack(descriptor_len, 1) \o sha

\* STREAM_ITEM.unpack as StreamItem
STREAM_ITEM_unpack(b) ==
    [compressed_size |-> Unpack(SubSeq(b, 19, 22)),
     filename_len    |-> Unpack(SubSeq(b, 27, 28)),
     extra_field_len |-> Unpack(SubSeq(b, 29, 30)),
     descriptor_len  |-> Unpack(SubSeq(b, 31, 31)),
     sha             |-> SubSeq(b, 32, 51)]

\* JUMP_ITEM.pack: '<2Q'
JUMP_ITEM_pack(a, b) == Pack(a, 8) \o Pack(b, 8)

\* JUMP_ITEM.unpack
JUMP_ITEM_unpack(b) == <<Unpack(SubSeq(b, 1, 8)), Unpack(SubSeq(b, 9, 16))>>

\* hashlib.sha1(data).digest(): 20 bytes, one digest per payload (the model's
\* payloads are shorter than a digest, so length and content fit into it)
sha1(data) == <<Len(data)>> \o data \o Zeros(SHA_size - 1 - Len(data))

RECURSIVE hexdigest(_)
\* sha.hexdigest() / b2a_hex(header.sha): two hexadecimal digits per byte
hexdigest(d) ==
    IF d = <<>> THEN <<>>
    ELSE <<Head(d) \div 16, Head(d) % 16>> \o hexdigest(Tail(d))

\* path.join(*([base, 'data'] + list(digest[:depth]))) and the blob's name
data_name(digest, depth) ==
    [directory |-> SubSeq(digest, 1, depth), name |-> digest]

----------------------------------------------------------------------------
(* The input files: ZIP containers laid out by the record formats above *)

NoFile == [open |-> FALSE]

\* data descriptor of an entry: with marker (16 bytes), bare (12) or absent
DescriptorBytes(e) ==
    LET body == Pack(e.crc, 4) \o Pack(Len(e.payload), 4)
                    \o Pack(Len(e.payload), 4)
    IN  CASE e.desc = "marked" -> DATA_DESCRIPTOR_marker \o body
          [] e.desc = "bare"   -> body
          [] OTHER             -> <<>>

\* local file header, variable fields, payload and descriptor of an entry
LocalBytes(e) ==
    LOCAL_HEADER_marker \o Pack(20, 2) \o Pack(e.flag, 2) \o Pack(0, 2)
        \o Pack(0, 2) \o Pack(0, 2) \o Pack(e.lfh_crc, 4)
        \o Pack(e.lfh_size, 4) \o Pack(e.lfh_size, 4)
        \o Pack(Len(e.name), 2) \o Pack(Len(e.extra), 2)
        \o e.name \o e.extra \o e.payload \o DescriptorBytes(e)

\* central directory entry with its variable trail
CentralBytes(e, offset) ==
    CENTRAL_DIR_marker \o Pack(20, 2) \o Pack(20, 2) \o Pack(e.flag, 2)
        \o Pack(0, 2) \o Pack(0, 2) \o Pack(0, 2) \o Pack(e.crc, 4)
        \o Pack(Len(e.payload), 4) \o Pack(Len(e.payload), 4)
        \o Pack(Len(e.name), 2) \o Pack(Len(e.cd_extra), 2)
        \o Pack(Len(e.comment), 2) \o Pack(0, 2) \o Pack(0, 2) \o Pack(0, 4)
        \o Pack(offset, 4) \o e.name \o e.cd_extra \o e.comment

\* end of central directory record and the archive comment
EndBytes(n, directory_size, directory_offset, comment) ==
    END_OF_DIR_marker \o Pack(0, 2) \o Pack(0, 2) \o Pack(n, 2) \o Pack(n, 2)
        \o Pack(directory_size, 4) \o Pack(directory_offset, 4)
        \o Pack(Len(comment), 2) \o comment

RECURSIVE LocalOffset(_, _, _)
\* archive offset of the local header of entry k, entries laid out in order
LocalOffset(prefix, entries, k) ==
    IF k = 1 THEN Len(prefix)
    ELSE LocalOffset(prefix, entries, k - 1) + Len(LocalBytes(entries[k - 1]))

RECURSIVE Concat(_)
Concat(ss) == IF ss = <<>> THEN <<>> ELSE Head(ss) \o Concat(Tail(ss))

\* a ZIP container: prefix, the entries in layout order, the central
\* directory listing them in the order cdorder, the end record, the comment
Zip(prefix, entries, cdorder, comment) ==
    LET body == prefix \o Concat([k \in 1..Len(entries) |->
                                     LocalBytes(entries[k])])
        cd   == Concat([i \in 1..Len(cdorder) |->
                    CentralBytes(entries[cdorder[i]],
                                 LocalOffset(prefix, entries, cdorder[i]))])
    IN  body \o cd \o EndBytes(Len(cdorder), Len(cd), Len(body), comment)

Entry(name, extra, cd_extra, payload, desc) ==
    [name |-> name, extra |-> extra, cd_extra |-> cd_extra,
     payload |-> payload, desc |-> desc, comment |-> <<>>,
     flag |-> IF desc = "none" THEN 0 ELSE 8,
     crc |-> 7, lfh_crc |-> IF desc = "none" THEN 7 ELSE 0,
     lfh_size |-> IF desc = "none" THEN Len(payload) ELSE 0]

P1 == <<11, 12>>
P2 == <<13>>
P3 == <<14, 15, 16>>

\* the ZIP containers among the input files: prefix, entries in layout
\* order, order of the central directory, archive comment
\*  a: two stored entries, the second streamed with a marked descriptor
\*  b: shares P1 with a; a bare descriptor, an empty payload, a comment
\*  c: one byte in front of the first local header (a self-extractor stub)
\*  d: one payload twice; the central directory lists the second entry first
\*  e: an end record only, total_entries = 0
Layout ==
    [a |-> [prefix |-> <<>>, cdorder |-> <<1, 2>>, comment |-> <<>>,
            entries |-> <<Entry(<<97>>, <<>>, <<>>, P1, "none"),
                          Entry(<<98>>, <<9>>, <<>>, P2, "marked")>>],
     b |-> [prefix |-> <<>>, cdorder |-> <<1, 2>>, comment |-> <<33>>,
            entries |-> <<Entry(<<99>>, <<>>, <<>>, P1, "bare"),
                          Entry(<<100>>, <<>>, <<>>, <<>>, "none")>>],
     c |-> [prefix |-> <<77>>, cdorder |-> <<1>>, comment |-> <<>>,
            entries |-> <<Entry(<<101>>, <<>>, <<>>, P2, "none")>>],
     d |-> [prefix |-> <<>>, cdorder |-> <<2, 1>>, comment |-> <<>>,
            entries |-> <<Entry(<<102>>, <<>>, <<>>, P3, "none"),
                          Entry(<<103>>, <<>>, <<>>, P3, "none")>>],
     e |-> [prefix |-> <<>>, cdorder |-> <<>>, comment |-> <<>>,
            entries |-> <<>>]]

ZipNames == DOMAIN Layout

\* not a ZIP: no end-of-directory marker anywhere
Noise == [i \in 1..24 |-> i]

\* shorter than an end-of-directory record
Short == <<80, 75, 5, 6, 0>>

\* an end record announcing one entry at offset 0 and nothing else: the read
\* of the central directory record comes back short
Truncated == EndBytes(1, CENTRAL_DIR_size, 0, <<>>)

\* the input files by basename
Files ==
    [name \in ZipNames |->
        Zip(Layout[name].prefix, Layout[name].entries, Layout[name].cdorder,
            Layout[name].comment)]
    @@ [n |-> Noise, s |-> Short, t |-> Truncated]

Names == DOMAIN Files

----------------------------------------------------------------------------
(* xzip/explode.py *)

\* blob_put without the isfile test: the blob is written on every put
blob_put_always(st, name, data) ==
    [st EXCEPT !.blobs = (name :> data) @@ @,
               !.writes = (name :> (IF name \in DOMAIN st.writes
                                    THEN st.writes[name] + 1 ELSE 1)) @@ @]

\* the blob store put of process_file: write the payload unless a file of
\* that name exists
blob_put(st, name, data) ==
    IF name \in DOMAIN st.blobs THEN st
    ELSE [st EXCEPT !.blobs = (name :> data) @@ @,
                    !.writes = (name :> 1) @@ @]

\* read_descriptor without the seek back over the four probed bytes
read_descriptor_no_rewind(f, p, flag) ==
    LET probe == FileRead(f, p, Len(DATA_DESCRIPTOR_marker))
    IN  IF probe = DATA_DESCRIPTOR_marker
        THEN [ok |-> TRUE, bytes |-> DATA_DESCRIPTOR_marker
                 \o FileRead(f, p + Len(probe), DATA_DESCRIPTOR_size)]
        ELSE IF Bit3(flag)
             THEN [ok |-> TRUE,
                   bytes |-> FileRead(f, p + Len(probe), DATA_DESCRIPTOR_size)]
             ELSE [ok |-> TRUE, bytes |-> <<>>]

\* read_descriptor deciding by the flag alone, without the probe for the marker
read_descriptor_flag_only(f, p, flag) ==
    IF Bit3(flag)
    THEN [ok |-> TRUE, bytes |-> FileRead(f, p, DATA_DESCRIPTOR_size)]
    ELSE [ok |-> TRUE, bytes |-> <<>>]

\* the descriptor detection of process_file; p is the position after the
\* payload; ok is FALSE when the relative seek fails.
read_descriptor(f, p, flag) ==
    LET probe == FileRead(f, p, Len(DATA_DESCRIPTOR_marker))
        back  == p + Len(probe) - Len(DATA_DESCRIPTOR_marker)
    IN  IF probe = DATA_DESCRIPTOR_marker
        THEN [ok |-> TRUE, bytes |-> DATA_DESCRIPTOR_marker
                 \o FileRead(f, p + Len(probe), DATA_DESCRIPTOR_size)]
        ELSE IF Bit3(flag)
             THEN IF back < 0 THEN [ok |-> FALSE, bytes |-> <<>>]
                  ELSE [ok |-> TRUE,
                        bytes |-> FileRead(f, back, DATA_DESCRIPTOR_size)]
             ELSE [ok |-> TRUE, bytes |-> <<>>]

\* process_file taking the payload size from the local header
process_file_header_size(f, info, st, depth) ==
    LET raw == FileRead(f, info.offset, LOCAL_HEADER_size)
    IN  IF Len(raw) # LOCAL_HEADER_size THEN [st EXCEPT !.ok = FALSE]
        ELSE
        LET header     == LOCAL_HEADER_unpack(raw)
            p1         == info.offset + LOCAL_HEADER_size
            var_fields == FileRead(f, p1, header.filename_len
                                            + header.extra_field_len)
            p2         == p1 + Len(var_fields)
            data       == FileRead(f, p2, header.compressed_size)
            p3         == p2 + Len(data)
            sha        == sha1(data)
            st1        == blob_put(st, data_name(hexdigest(sha), depth), data)
            descriptor == read_descriptor(f, p3, header.flag)
        IN  IF ~descriptor.ok THEN [st1 EXCEPT !.ok = FALSE]
            ELSE [st1 EXCEPT !.stream = @
                      \o STREAM_ITEM_pack(header, Len(descriptor.bytes), sha)
                      \o var_fields \o descriptor.bytes]

\* process_file hashing the variable fields together with the payload
process_file_hash_fields(f, info, st, depth) ==
    LET raw == FileRead(f, info.offset, LOCAL_HEADER_size)
    IN  IF Len(raw) # LOCAL_HEADER_size THEN [st EXCEPT !.ok = FALSE]
        ELSE
        LET header     == LOCAL_HEADER_unpack(raw)
            p1         == info.offset + LOCAL_HEADER_size
            var_fields == FileRead(f, p1, header.filename_len
                                            + header.extra_field_len)
            p2         == p1 + Len(var_fields)
            data       == FileRead(f, p2, info.compressed_size)
            p3         == p2 + Len(data)
            sha        == sha1(var_fields \o data)
            st1        == blob_put(st, data_name(hexdigest(sha), depth), data)
            descriptor == read_descriptor(f, p3, header.flag)
        IN  IF ~descriptor.ok THEN [st1 EXCEPT !.ok = FALSE]
            ELSE [st1 EXCEPT !.stream = @
                      \o STREAM_ITEM_pack(header, Len(descriptor.bytes), sha)
                      \o var_fields \o descriptor.bytes]

\* process_file packing the central directory's compressed_size into the
\* stream item
process_file_cd_size(f, info, st, depth) ==
    LET raw == FileRead(f, info.offset, LOCAL_HEADER_size)
    IN  IF Len(raw) # LOCAL_HEADER_size THEN [st EXCEPT !.ok = FALSE]
        ELSE
        LET header     == LOCAL_HEADER_unpack(raw)
            p1         == info.offset + LOCAL_HEADER_size
            var_fields == FileRead(f, p1, header.filename_len
                                            + header.extra_field_len)
            p2         == p1 + Len(var_fields)
            data       == FileRead(f, p2, info.compressed_size)
            p3         == p2 + Len(data)
            sha        == sha1(data)
            st1        == blob_put(st, data_name(hexdigest(sha), depth), data)
            descriptor == read_descriptor(f, p3, header.flag)
        IN  IF ~descriptor.ok THEN [st1 EXCEPT !.ok = FALSE]
            ELSE [st1 EXCEPT !.stream = @
                      \o STREAM_ITEM_pack(
                             [header EXCEPT
                                !.compressed_size = info.compressed_size],
                             Len(descriptor.bytes), sha)
                      \o var_fields \o descriptor.bytes]

\* process_file without the seek back: the archive is left behind the entry
process_file_stays(f, info, st, depth) ==
    LET pos == st.tell
        raw == FileRead(f, info.offset, LOCAL_HEADER_size)
    IN  IF Len(raw) # LOCAL_HEADER_size THEN [st EXCEPT !.ok = FALSE]
        ELSE
        LET header     == LOCAL_HEADER_unpack(raw)
            p1         == info.offset + LOCAL_HEADER_size
            var_fields == FileRead(f, p1, header.filename_len
                                            + header.extra_field_len)
            p2         == p1 + Len(var_fields)
            data       == FileRead(f, p2, info.compressed_size)
            p3         == p2 + Len(data)
            sha        == sha1(data)
            st1        == blob_put(st, data_name(hexdigest(sha), depth), data)
            descriptor == read_descriptor(f, p3, header.flag)
        IN  IF ~descriptor.ok THEN [st1 EXCEPT !.ok = FALSE]
            ELSE [st1 EXCEPT !.tell = p3 + Len(descriptor.bytes),
                             !.stream = @
                      \o STREAM_ITEM_pack(header, Len(descriptor.bytes), sha)
                      \o var_fields \o descriptor.bytes]

\* process_file(file, info, stream, depth, base); st carries the sidecars
\* being written, the blob pool and the read position of the archive
process_file(f, info, st, depth) ==
    LET pos == st.tell
        raw == FileRead(f, info.offset, LOCAL_HEADER_size)
    IN  IF Len(raw) # LOCAL_HEADER_size THEN [st EXCEPT !.ok = FALSE]
        ELSE
        LET header     == LOCAL_HEADER_unpack(raw)
            p1         == info.offset + LOCAL_HEADER_size
            var_fields == FileRead(f, p1, header.filename_len
                                            + header.extra_field_len)
            p2         == p1 + Len(var_fields)
            data       == FileRead(f, p2, info.compressed_size)
            p3         == p2 + Len(data)
            sha        == sha1(data)
            st1        == blob_put(st, data_name(hexdigest(sha), depth), data)
            descriptor == read_descriptor(f, p3, header.flag)
        IN  IF ~descriptor.ok THEN [st1 EXCEPT !.ok = FALSE]
            ELSE [st1 EXCEPT !.tell = pos,
                             !.stream = @
                      \o STREAM_ITEM_pack(header, Len(descriptor.bytes), sha)
                      \o var_fields \o descriptor.bytes]

RECURSIVE walk_directory_no_trail(_, _, _, _, _)
\* walk_directory without the copy of a record's variable trail
walk_directory_no_trail(f, n, pos, st, depth) ==
    IF n = 0 THEN [st EXCEPT !.dir = @ \o FileRead(f, pos, Len(f))]
    ELSE
    LET raw == FileRead(f, pos, CENTRAL_DIR_size)
        st1 == [st EXCEPT !.dir = @ \o raw]
    IN  IF Len(raw) # CENTRAL_DIR_size THEN [st1 EXCEPT !.ok = FALSE]
        ELSE
        LET info  == CENTRAL_DIR_unpack(raw)
            st2   == [st1 EXCEPT !.tell = pos + CENTRAL_DIR_size,
                                 !.jump = @
                         \o JUMP_ITEM_pack(info.offset, Len(st1.stream))]
            st3   == process_file(f, info, st2, depth)
            trail == FileRead(f, st3.tell,
                              info.filename_len + info.extra_field_len
                                  + info.comment_len)
        IN  IF ~st3.ok THEN st3
            ELSE walk_directory_no_trail(f, n - 1,
                     st3.tell + Len(trail), st3, depth)

RECURSIVE walk_directory_jump_late(_, _, _, _, _)
\* walk_directory with the jump entry written after process_file
walk_directory_jump_late(f, n, pos, st, depth) ==
    IF n = 0 THEN [st EXCEPT !.dir = @ \o FileRead(f, pos, Len(f))]
    ELSE
    LET raw == FileRead(f, pos, CENTRAL_DIR_size)
        st1 == [st EXCEPT !.dir = @ \o raw]
    IN  IF Len(raw) # CENTRAL_DIR_size THEN [st1 EXCEPT !.ok = FALSE]
        ELSE
        LET info  == CENTRAL_DIR_unpack(raw)
            st2   == process_file(f, info,
                         [st1 EXCEPT !.tell = pos + CENTRAL_DIR_size], depth)
            st3   == [st2 EXCEPT !.jump = @
                         \o JUMP_ITEM_pack(info.offset, Len(st2.stream))]
            trail == FileRead(f, st3.tell,
                              info.filename_len + info.extra_field_len
                                  + info.comment_len)
        IN  IF ~st3.ok THEN st3
            ELSE walk_directory_jump_late(f, n - 1, st3.tell + Len(trail),
                                [st3 EXCEPT !.dir = @ \o trail], depth)

RECURSIVE walk_directory(_, _, _, _, _)
\* the loop of process_zip over range(eoa.total_entries) and the copy of the
\* rest of the file; pos is the archive's read position
walk_directory(f, n, pos, st, depth) ==
    IF n = 0 THEN [st EXCEPT !.dir = @ \o FileRead(f, pos, Len(f))]
    ELSE
    LET raw == FileRead(f, pos, CENTRAL_DIR_size)
        st1 == [st EXCEPT !.dir = @ \o raw]
    IN  IF Len(raw) # CENTRAL_DIR_size THEN [st1 EXCEPT !.ok = FALSE]
        ELSE
        LET info  == CENTRAL_DIR_unpack(raw)
            st2   == [st1 EXCEPT !.tell = pos + CENTRAL_DIR_size,
                                 !.jump = @
                         \o JUMP_ITEM_pack(info.offset, Len(st1.stream))]
            st3   == process_file(f, info, st2, depth)
            trail == FileRead(f, st3.tell,
                              info.filename_len + info.extra_field_len
                                  + info.comment_len)
        IN  IF ~st3.ok THEN st3
            ELSE walk_directory(f, n - 1, st3.tell + Len(trail),
                                [st3 EXCEPT !.dir = @ \o trail], depth)

\* find_end_of_dir without the return on index < 0
find_end_of_dir_unchecked(f) ==
    IF Len(f) < END_OF_DIR_size THEN [status |-> "notzip"]
    ELSE
    LET filesize == Len(f)
        last     == FileRead(f, filesize - END_OF_DIR_size, END_OF_DIR_size)
        start    == Max(filesize - (SEARCH_WINDOW + END_OF_DIR_size), 0)
        tmp      == FileRead(f, start, filesize)
        index    == RFind(tmp, END_OF_DIR_marker)
        found    == Slice(tmp, index, index + END_OF_DIR_size)
    IN  IF END_OF_DIR_unpack(last).signature = END_OF_DIR_marker
        THEN [status |-> "ok", eoa |-> END_OF_DIR_unpack(last)]
        ELSE IF Len(found) # END_OF_DIR_size THEN [status |-> "error"]
        ELSE [status |-> "ok", eoa |-> END_OF_DIR_unpack(found)]

\* the search for the end-of-directory record at the head of process_zip:
\* "notzip" (return), "error" (unpack of a short slice) or the record
find_end_of_dir(f) ==
    IF Len(f) < END_OF_DIR_size THEN [status |-> "notzip"]
    ELSE
    LET filesize == Len(f)
        last     == FileRead(f, filesize - END_OF_DIR_size, END_OF_DIR_size)
        start    == Max(filesize - (SEARCH_WINDOW + END_OF_DIR_size), 0)
        tmp      == FileRead(f, start, filesize)
        index    == RFind(tmp, END_OF_DIR_marker)
        found    == Slice(tmp, index, index + END_OF_DIR_size)
    IN  IF END_OF_DIR_unpack(last).signature = END_OF_DIR_marker
        THEN [status |-> "ok", eoa |-> END_OF_DIR_unpack(last)]
        ELSE IF index < 0 THEN [status |-> "notzip"]
        ELSE IF Len(found) # END_OF_DIR_size THEN [status |-> "error"]
        ELSE [status |-> "ok", eoa |-> END_OF_DIR_unpack(found)]

\* process_zip opening the sidecars for appending
process_zip_append(fs, name, depth) ==
    LET f   == Files[name]
        end == find_end_of_dir(f)
        old == IF name \in DOMAIN fs.sidecars THEN fs.sidecars[name]
               ELSE [jump |-> <<>>, stream |-> <<>>, dir |-> <<>>]
    IN  IF end.status # "ok" THEN [fs EXCEPT !.status = end.status]
        ELSE
        LET eoa == end.eoa
            st0 == [jump   |-> old.jump
                         \o JUMP_ITEM_pack(Len(f), eoa.directory_offset),
                    stream |-> old.stream, dir |-> old.dir, ok |-> TRUE,
                    tell   |-> eoa.directory_offset,
                    blobs  |-> fs.blobs, writes |-> fs.writes]
            st  == walk_directory(f, eoa.total_entries, eoa.directory_offset,
                                  st0, depth)
        IN  [isdir    |-> fs.isdir \cup {"meta", "data"},
             sidecars |-> (name :> [jump |-> st.jump, stream |-> st.stream,
                                    dir |-> st.dir]) @@ fs.sidecars,
             blobs    |-> st.blobs,
             writes   |-> st.writes,
             status   |-> IF st.ok THEN "ok" ELSE "error"]

\* process_zip(filename, depth, base) on the base directory fs =
\* [isdir, sidecars, blobs, writes]; yields the new base and the outcome
process_zip_file(fs, f, name, depth) ==
    LET end == find_end_of_dir(f)
    IN  IF end.status # "ok" THEN [fs EXCEPT !.status = end.status]
        ELSE
        LET eoa == end.eoa
            st0 == [jump   |-> JUMP_ITEM_pack(Len(f), eoa.directory_offset),
                    stream |-> <<>>, dir |-> <<>>, ok |-> TRUE,
                    tell   |-> eoa.directory_offset,
                    blobs  |-> fs.blobs, writes |-> fs.writes]
            st  == walk_directory(f, eoa.total_entries, eoa.directory_offset,
                                  st0, depth)
        IN  [isdir    |-> fs.isdir \cup {"meta", "data"},
             sidecars |-> (name :> [jump |-> st.jump, stream |-> st.stream,
                                    dir |-> st.dir]) @@ fs.sidecars,
             blobs    |-> st.blobs,
             writes   |-> st.writes,
             status   |-> IF st.ok THEN "ok" ELSE "error"]

\* process_zip(filename, depth, base) on the input file of that basename
process_zip(fs, name, depth) == process_zip_file(fs, Files[name], name, depth)

S_IFREG == 32768

\* st_mode, st_uid and st_gid of a file that open(name, 'wb') creates
NewStat == [mode |-> S_IFREG + 420, uid |-> 1, gid |-> 2]

\* the attributes of the meta files once the sidecars sc are there: those of
\* a basename that had none are the attributes of new files
created(st, sc) ==
    [n \in DOMAIN sc |->
        IF n \in DOMAIN st THEN st[n] ELSE <<NewStat, NewStat, NewStat>>]

\* one run of explode on one file
Explode(name, depth) ==
    /\ runs < MaxRuns
    /\ runs' = runs + 1
    /\ UNCHANGED <<opens, exploded_info, file, sequential, srvvars>>
    /\ \E fs \in {process_zip([isdir |-> isdir, sidecars |-> sidecars,
                                blobs |-> blobs, writes |-> writes,
                                status |-> "none"], name, depth)} :
           /\ isdir' = fs.isdir
           /\ sidecars' = fs.sidecars
           /\ stats' = created(stats, fs.sidecars)
           /\ blobs' = fs.blobs
           /\ writes' = fs.writes
           /\ exploded' = IF fs.status = "ok"
                          THEN exploded \cup {<<name, depth>>} ELSE exploded
           /\ result' = [op |-> "explode", name |-> name, depth |-> depth,
                         status |-> fs.status,
                         again |-> <<name, depth>> \in exploded]

RECURSIVE explode_all(_, _, _)
\* main() of explode.py: process_zip on each file name in turn; an exception
\* raised by process_zip leaves the loop and ends the invocation
explode_all(names, depth, fs) ==
    IF names = <<>> THEN fs
    ELSE CHOOSE all \in
             {IF r.status = "error"
              THEN [base |-> r, done |-> done,
                    statuses |-> statuses \o <<r.status>>]
              ELSE explode_all(Tail(names), depth,
                       [base |-> r,
                        done |-> IF r.status = "ok"
                                 THEN done \cup {Head(names)} ELSE done,
                        statuses |-> statuses \o <<r.status>>]) :
              r \in {process_zip(fs.base, Head(names), depth)},
              done \in {fs.done}, statuses \in {fs.statuses}} : TRUE

\* one invocation of explode with several file names
Main(filenames, depth) ==
    /\ runs + Len(filenames) <= MaxRuns
    /\ runs' = runs + Len(filenames)
    /\ UNCHANGED <<opens, exploded_info, file, sequential, srvvars>>
    /\ \E all \in {explode_all(filenames, depth,
                         [base |-> [isdir |-> isdir, sidecars |-> sidecars,
                                    blobs |-> blobs, writes |-> writes,
                                    status |-> "none"],
                          done |-> {}, statuses |-> <<>>])} :
           /\ isdir' = all.base.isdir
           /\ sidecars' = all.base.sidecars
           /\ stats' = created(stats, all.base.sidecars)
           /\ blobs' = all.base.blobs
           /\ writes' = all.base.writes
           /\ exploded' = exploded \cup {<<name, depth>> : name \in all.done}
           /\ result' = [op |-> "main", names |-> filenames, depth |-> depth,
                         statuses |-> all.statuses]

InitBase ==
    /\ isdir = {}
    /\ sidecars = <<>>
    /\ stats = <<>>
    /\ blobs = <<>>
    /\ writes = <<>>
    /\ exploded = {}
    /\ runs = 0
    /\ opens = 0
    /\ exploded_info = <<>>
    /\ file = NoFile
    /\ sequential = FALSE
    /\ result = [op |-> "none"]
    /\ handles = <<>>
    /\ objs = <<>>
    /\ fh = 0
    /\ fh_lock = 0
    /\ pc = [t \in Threads |-> [at |-> "idle"]]

NextExplode ==
    \/ \E name \in Names, depth \in Depths : Explode(name, depth)
    \/ \E first, second \in Names, depth \in Depths :
           Main(<<first, second>>, depth)

SpecExplode == InitBase /\ [][NextExplode]_vars

----------------------------------------------------------------------------
(* xzip/fs.py: SeekTree *)

\* SeekTree(i): a leaf holds the pair (source, destination)
Leaf(i) == [kind |-> "leaf", location |-> i, key |-> 0,
            left |-> <<>>, right |-> <<>>]

\* SeekTree(right_min, left=left_tree, right=right_tree)
Node(key, l, r) == [kind |-> "node", location |-> <<>>, key |-> key,
                    left |-> <<l>>, right |-> <<r>>]

\* load() returned None
NoTree == [kind |-> "none", location |-> <<>>, key |-> 0,
           left |-> <<>>, right |-> <<>>]

RECURSIVE pair_level_left_key(_)
\* a pass that keys each internal node with the minimum of its left tree
pair_level_left_key(last_level) ==
    IF Len(last_level) = 0 THEN <<>>
    ELSE IF Len(last_level) = 1 THEN last_level
    ELSE <<[tree |-> Node(last_level[1].min, last_level[1].tree,
                          last_level[2].tree),
            min  |-> last_level[1].min]>>
             \o pair_level_left_key(SubSeq(last_level, 3, Len(last_level)))

\* a pass that joins the first two trees only and carries the rest up
pair_level_first_pair(last_level) ==
    IF Len(last_level) = 0 THEN <<>>
    ELSE IF Len(last_level) = 1 THEN last_level
    ELSE <<[tree |-> Node(last_level[2].min, last_level[1].tree,
                          last_level[2].tree),
            min  |-> last_level[1].min]>>
             \o SubSeq(last_level, 3, Len(last_level))

RECURSIVE pair_level(_)
\* one pass of the inner loop of load: last_level consumed two at a time
pair_level(last_level) ==
    IF Len(last_level) = 0 THEN <<>>
    ELSE IF Len(last_level) = 1 THEN last_level
    ELSE <<[tree |-> Node(last_level[2].min, last_level[1].tree,
                          last_level[2].tree),
            min  |-> last_level[1].min]>>
             \o pair_level(SubSeq(last_level, 3, Len(last_level)))

RECURSIVE load_levels(_)
\* the outer loop of load: repeat while the level built has more than one tree
load_levels(last_level) ==
    LET top_level == pair_level(last_level)
    IN  IF Len(top_level) > 1 THEN load_levels(top_level) ELSE top_level

\* SeekTree.load(iterator)
load(items) ==
    LET top == load_levels([k \in 1..Len(items) |->
                               [tree |-> Leaf(items[k]), min |-> items[k][1]]])
    IN  IF top = <<>> THEN NoTree ELSE top[1].tree

RECURSIVE find(_, _)
\* SeekTree.find(offset): the leaf reached
find(tree, offset) ==
    IF tree.kind = "leaf" THEN tree
    ELSE IF offset < tree.key THEN find(tree.left[1], offset)
    ELSE find(tree.right[1], offset)

RECURSIVE unpack_stream(_)
\* _unpack_stream(stream, JUMP_ITEM): records until the read returns b'';
\* ok is FALSE when the last chunk is short (unpack raises)
unpack_stream(b) ==
    IF b = <<>> THEN [ok |-> TRUE, items |-> <<>>]
    ELSE IF Len(b) < JUMP_ITEM_size THEN [ok |-> FALSE, items |-> <<>>]
    ELSE LET rest == unpack_stream(SubSeq(b, JUMP_ITEM_size + 1, Len(b)))
         IN  [ok    |-> rest.ok,
              items |-> <<JUMP_ITEM_unpack(SubSeq(b, 1, JUMP_ITEM_size))>>
                            \o rest.items]

\* the load of ExplodedZip._exploded_info from the jump sidecar
load_info(jump) ==
    LET head  == FileRead(jump, 0, JUMP_ITEM_size)
        items == unpack_stream(FileRead(jump, JUMP_ITEM_size, Len(jump)))
    IN  IF Len(head) # JUMP_ITEM_size \/ ~items.ok THEN [ok |-> FALSE]
        ELSE [ok |-> TRUE,
              info |-> [filesize         |-> JUMP_ITEM_unpack(head)[1],
                        directory_offset |-> JUMP_ITEM_unpack(head)[2],
                        jump_tree        |-> load(items.items)]]

----------------------------------------------------------------------------
(* xzip/fs.py: SeekTree.load and SeekTree.find on sorted jump entries *)

RECURSIVE Ascending(_)
\* the numbers of a set in ascending order
Ascending(S) ==
    IF S = {} THEN <<>>
    ELSE CHOOSE seq \in {<<m>> \o Ascending(S \ {m}) :
                            m \in {x \in S : \A y \in S : x <= y}} : TRUE

\* the sequences of jump entries load is called with: up to MaxEntries pairs
\* (z_off, s_off), strictly ascending in z_off
SortedEntries ==
    {[k \in 1..Len(zs) |-> <<zs[k], k - 1>>] :
        zs \in {Ascending(S) :
                  S \in {T \in SUBSET (0..MaxOffset) :
                            T # {} /\ Cardinality(T) <= MaxEntries}}}

\* SeekTree.load(iterator) on a sorted sequence
LoadTree(items) ==
    /\ result' = [op |-> "load", items |-> items, tree |-> load(items)]
    /\ UNCHANGED <<fsvars, opens, exploded_info, file, sequential, srvvars>>

\* tree.find(offset) on the tree loaded last
FindInTree(offset) ==
    /\ result.op \in {"load", "find"}
    /\ result' = [op |-> "find", items |-> result.items,
                  tree |-> result.tree, offset |-> offset,
                  found |-> find(result.tree, offset).location]
    /\ UNCHANGED <<fsvars, opens, exploded_info, file, sequential, srvvars>>

NextTree ==
    \/ \E items \in SortedEntries : LoadTree(items)
    \/ \E offset \in 0..(MaxOffset + 1) : FindInTree(offset)

SpecTree == InitBase /\ [][NextTree]_vars

----------------------------------------------------------------------------
(* xzip/fs.py: File, the reconstitution cursor *)

HEADER == 0
DATA == 1
DESCRIPTOR == 2
DIRECTORY == 3

\* stream_offset = None
None == 0 - 1

\* ExplodedZip(base, depth=0)
MountDepth == 0

\* the blob whose file the environment removes and puts back, and the
\* content of the removed file
LostBlob == data_name(hexdigest(sha1(P1)), MountDepth)
Removed == LostBlob :> P1

\* a _load_stream_item that leaves an open blob open
load_stream_item_keeps_blob(F) ==
    LET stream     == sidecars[F.path].stream
        closed     == F
        raw_header == FileRead(stream, F.stream_pos, STREAM_ITEM_size)
        p1         == F.stream_pos + Len(raw_header)
    IN  IF Len(raw_header) # STREAM_ITEM_size
        THEN [ok |-> FALSE, f |-> [closed EXCEPT !.stream_pos = p1]]
        ELSE
        LET header     == STREAM_ITEM_unpack(raw_header)
            var_fields == FileRead(stream, p1, header.filename_len
                                                 + header.extra_field_len)
            p2         == p1 + Len(var_fields)
            descriptor == FileRead(stream, p2, header.descriptor_len)
        IN  [ok |-> TRUE,
             f  |-> [closed EXCEPT
                       !.zip_header = Slice(raw_header, 0, HEADER_DIFF)
                                          \o var_fields,
                       !.descriptor = descriptor,
                       !.data_name = data_name(hexdigest(header.sha), F.depth),
                       !.stream_pos = p2 + Len(descriptor)]]

\* File._load_stream_item
load_stream_item(F) ==
    LET stream     == sidecars[F.path].stream
        closed     == [F EXCEPT !.data = FALSE]
        raw_header == FileRead(stream, F.stream_pos, STREAM_ITEM_size)
        p1         == F.stream_pos + Len(raw_header)
    IN  IF Len(raw_header) # STREAM_ITEM_size
        THEN [ok |-> FALSE, f |-> [closed EXCEPT !.stream_pos = p1]]
        ELSE
        LET header     == STREAM_ITEM_unpack(raw_header)
            var_fields == FileRead(stream, p1, header.filename_len
                                                 + header.extra_field_len)
            p2         == p1 + Len(var_fields)
            descriptor == FileRead(stream, p2, header.descriptor_len)
        IN  [ok |-> TRUE,
             f  |-> [closed EXCEPT
                       !.zip_header = Slice(raw_header, 0, HEADER_DIFF)
                                          \o var_fields,
                       !.descriptor = descriptor,
                       !.data_name = data_name(hexdigest(header.sha), F.depth),
                       !.stream_pos = p2 + Len(descriptor)]]

\* an _open_data_file that does not measure the blob
open_data_file_unmeasured(F) ==
    IF F.data_name \notin DOMAIN blobs THEN [ok |-> FALSE, f |-> F]
    ELSE [ok |-> TRUE,
          f  |-> [F EXCEPT !.data = TRUE, !.data_file = F.data_name,
                           !.leaked = @ \/ F.data,
                           !.data_pos = 0, !.data_len = 0]]

\* File._open_data_file
open_data_file(F) ==
    IF F.data_name \notin DOMAIN blobs THEN [ok |-> FALSE, f |-> F]
    ELSE [ok |-> TRUE,
          f  |-> [F EXCEPT !.data = TRUE, !.data_file = F.data_name,
                           !.leaked = @ \/ F.data,
                           !.data_pos = 0,
                           !.data_len = Len(blobs[F.data_name])]]

\* the HEADER branch of File.readinto
readinto_header(F, count) ==
    LET header_len      == Len(F.zip_header)
        previous_offset == F.offset
        current_offset  == Min(previous_offset + count, header_len)
        read            == current_offset - previous_offset
        bytes           == Slice(F.zip_header, previous_offset, current_offset)
        F1              == [F EXCEPT !.offset = current_offset]
        F2              == [F1 EXCEPT !.cursor = @ + read]
        F3              == [F2 EXCEPT !.state = DATA]
    IN  IF Len(bytes) # read THEN [ok |-> FALSE, f |-> F1, bytes |-> <<>>]
        ELSE IF current_offset # header_len
        THEN [ok |-> TRUE, f |-> F2, bytes |-> bytes]
        ELSE IF F3.data THEN [ok |-> TRUE, f |-> F3, bytes |-> bytes]
        ELSE LET o == open_data_file(F3)
             IN  [ok |-> o.ok, f |-> o.f,
                  bytes |-> IF o.ok THEN bytes ELSE <<>>]

\* what the open data file of a blob reads: a file removed from the pool
\* after the open keeps its content for the open file
data_content(name) ==
    IF name \in DOMAIN blobs THEN blobs[name] ELSE Removed[name]

\* the DATA branch of File.readinto up to its retry
readinto_data(F, count) ==
    IF ~F.data THEN [ok |-> FALSE, f |-> F, bytes |-> <<>>]
    ELSE
    LET bytes == FileRead(data_content(F.data_file), F.data_pos, count)
        F1    == [F EXCEPT !.data_pos = @ + Len(bytes),
                           !.cursor = @ + Len(bytes)]
    IN  [ok |-> TRUE, bytes |-> bytes,
         f  |-> IF F1.data_pos >= F1.data_len
                THEN [F1 EXCEPT !.state = DESCRIPTOR, !.offset = 0]
                ELSE F1]

\* a DESCRIPTOR branch that enters DIRECTORY without closing the blob and
\* without rewinding the directory sidecar
readinto_descriptor_leaves_blob(F, count) ==
    LET descriptor_len  == Len(F.descriptor)
        previous_offset == F.offset
        current_offset  == Min(previous_offset + count, descriptor_len)
        read            == current_offset - previous_offset
        bytes           == Slice(F.descriptor, previous_offset, current_offset)
        F1              == [F EXCEPT !.offset = current_offset]
        F2              == [F1 EXCEPT !.cursor = @ + read]
    IN  IF Len(bytes) # read THEN [ok |-> FALSE, f |-> F1, bytes |-> <<>>]
        ELSE IF current_offset # descriptor_len
        THEN [ok |-> TRUE, f |-> F2, bytes |-> bytes]
        ELSE IF F2.cursor >= F2.info.directory_offset
        THEN [ok |-> TRUE, bytes |-> bytes,
              f  |-> [F2 EXCEPT !.state = DIRECTORY, !.stream_offset = None]]
        ELSE LET l == load_stream_item(
                          [F2 EXCEPT !.state = HEADER, !.offset = 0,
                                     !.stream_offset = F2.stream_pos])
             IN  [ok |-> l.ok, f |-> l.f,
                  bytes |-> IF l.ok THEN bytes ELSE <<>>]

\* the DESCRIPTOR branch of File.readinto up to its retry
readinto_descriptor(F, count) ==
    LET descriptor_len  == Len(F.descriptor)
        previous_offset == F.offset
        current_offset  == Min(previous_offset + count, descriptor_len)
        read            == current_offset - previous_offset
        bytes           == Slice(F.descriptor, previous_offset, current_offset)
        F1              == [F EXCEPT !.offset = current_offset]
        F2              == [F1 EXCEPT !.cursor = @ + read]
    IN  IF Len(bytes) # read THEN [ok |-> FALSE, f |-> F1, bytes |-> <<>>]
        ELSE IF current_offset # descriptor_len
        THEN [ok |-> TRUE, f |-> F2, bytes |-> bytes]
        ELSE IF F2.cursor >= F2.info.directory_offset
        THEN [ok |-> TRUE, bytes |-> bytes,
              f  |-> [F2 EXCEPT !.state = DIRECTORY, !.dir_pos = 0,
                                !.stream_offset = None, !.data = FALSE]]
        ELSE LET l == load_stream_item(
                          [F2 EXCEPT !.state = HEADER, !.offset = 0,
                                     !.stream_offset = F2.stream_pos])
             IN  [ok |-> l.ok, f |-> l.f,
                  bytes |-> IF l.ok THEN bytes ELSE <<>>]

\* the DIRECTORY branch of File.readinto
readinto_directory(F, count) ==
    LET bytes == FileRead(sidecars[F.path].dir, F.dir_pos, count)
    IN  [ok |-> TRUE, bytes |-> bytes,
         f  |-> [F EXCEPT !.dir_pos = @ + Len(bytes),
                          !.cursor = @ + Len(bytes)]]

\* one branch of File.readinto(b) with len(b) = count > 0, without the retry
readinto_branch(F, count) ==
    IF F.state = HEADER THEN readinto_header(F, count)
    ELSE IF F.state = DATA THEN readinto_data(F, count)
    ELSE IF F.state = DESCRIPTOR THEN readinto_descriptor(F, count)
    ELSE readinto_directory(F, count)

RECURSIVE readinto(_, _)
\* File.readinto(b) with len(b) = count: the bytes stored into b; an empty
\* read in DATA or DESCRIPTOR is retried in the state reached
readinto(F, count) ==
    IF count = 0 THEN [ok |-> TRUE, f |-> F, bytes |-> <<>>]
    ELSE CHOOSE out \in
             {IF r.ok /\ r.bytes = <<>> /\ F.state \in {DATA, DESCRIPTOR}
              THEN readinto(r.f, count) ELSE r :
              r \in {readinto_branch(F, count)}} : TRUE

\* the HEADER branch of File.read
read_header(F, count) ==
    LET previous_offset == F.offset
        F1     == [F EXCEPT !.offset = previous_offset + count]
        data == Slice(F.zip_header, previous_offset, F1.offset)
        F2     == [F1 EXCEPT !.cursor = @ + Len(data)]
        F3     == [F2 EXCEPT !.state = DATA]
    IN  IF F1.offset < Len(F.zip_header)
        THEN [ok |-> TRUE, f |-> F2, bytes |-> data]
        ELSE IF F3.data THEN [ok |-> TRUE, f |-> F3, bytes |-> data]
        ELSE LET o == open_data_file(F3)
             IN  [ok |-> o.ok, f |-> o.f,
                  bytes |-> IF o.ok THEN data ELSE <<>>]

\* the DESCRIPTOR branch of File.read up to its retry
read_descriptor_branch(F, count) ==
    LET previous_offset == F.offset
        F1     == [F EXCEPT !.offset = previous_offset + count]
        data == Slice(F.descriptor, previous_offset, F1.offset)
        F2     == [F1 EXCEPT !.cursor = @ + Len(data)]
    IN  IF F1.offset < Len(F.descriptor)
        THEN [ok |-> TRUE, f |-> F2, bytes |-> data]
        ELSE IF F2.cursor >= F2.info.directory_offset
        THEN [ok |-> TRUE, bytes |-> data,
              f  |-> [F2 EXCEPT !.state = DIRECTORY, !.dir_pos = 0,
                                !.stream_offset = None, !.data = FALSE]]
        ELSE LET l == load_stream_item(
                          [F2 EXCEPT !.state = HEADER, !.offset = 0,
                                     !.stream_offset = F2.stream_pos])
             IN  [ok |-> l.ok, f |-> l.f,
                  bytes |-> IF l.ok THEN data ELSE <<>>]

\* one branch of File.read(count) with count > 0, without the retry; the
\* DATA and DIRECTORY branches read as those of readinto do
read_branch(F, count) ==
    IF F.state = HEADER THEN read_header(F, count)
    ELSE IF F.state = DATA THEN readinto_data(F, count)
    ELSE IF F.state = DESCRIPTOR THEN read_descriptor_branch(F, count)
    ELSE readinto_directory(F, count)

RECURSIVE read(_, _)
\* File.read(count) with count >= 0: an empty result in DATA or DESCRIPTOR
\* is retried in the state reached
read(F, count) ==
    IF count = 0 THEN [ok |-> TRUE, f |-> F, bytes |-> <<>>]
    ELSE CHOOSE out \in
             {IF r.ok /\ r.bytes = <<>> /\ F.state \in {DATA, DESCRIPTOR}
              THEN read(r.f, count) ELSE r :
              r \in {read_branch(F, count)}} : TRUE

\* a seek without the early return for pos = cursor
seek_always_repositions(F, pos) ==
    LET F1 == [F EXCEPT !.cursor = pos]
    IN  IF pos >= F.info.directory_offset
        THEN [ok |-> TRUE,
              f  |-> [F1 EXCEPT !.data = FALSE, !.state = DIRECTORY,
                                !.stream_offset = None,
                                !.dir_pos = pos - F.info.directory_offset]]
        ELSE IF F.info.jump_tree.kind = "none" THEN [ok |-> FALSE, f |-> F1]
        ELSE
        LET location   == find(F.info.jump_tree, pos).location
            z_offset   == location[1]
            s_offset   == location[2]
            additional == pos - z_offset
            l          == IF s_offset # F1.stream_offset
                          THEN load_stream_item(
                                   [F1 EXCEPT !.stream_offset = s_offset,
                                              !.stream_pos = s_offset])
                          ELSE [ok |-> TRUE, f |-> F1]
            header_len == Len(l.f.zip_header)
            o          == IF l.f.data THEN [ok |-> TRUE, f |-> l.f]
                          ELSE open_data_file(l.f)
            in_data    == additional - header_len
        IN  IF ~l.ok THEN l
            ELSE IF additional < header_len
            THEN [ok |-> TRUE,
                  f  |-> [l.f EXCEPT !.state = HEADER, !.offset = additional]]
            ELSE IF ~o.ok THEN [ok |-> FALSE, f |-> [l.f EXCEPT !.state = DATA]]
            ELSE IF in_data < o.f.data_len
            THEN [ok |-> TRUE,
                  f  |-> [o.f EXCEPT !.state = DATA, !.data_pos = in_data]]
            ELSE [ok |-> TRUE,
                  f  |-> [o.f EXCEPT !.state = DESCRIPTOR,
                                     !.offset = in_data - o.f.data_len]]

\* File.seek(pos) with offset = 0
seek(F, pos) ==
    IF pos = F.cursor THEN [ok |-> TRUE, f |-> F]
    ELSE
    LET F1 == [F EXCEPT !.cursor = pos]
    IN  IF pos >= F.info.directory_offset
        THEN [ok |-> TRUE,
              f  |-> [F1 EXCEPT !.data = FALSE, !.state = DIRECTORY,
                                !.stream_offset = None,
                                !.dir_pos = pos - F.info.directory_offset]]
        ELSE IF F.info.jump_tree.kind = "none" THEN [ok |-> FALSE, f |-> F1]
        ELSE
        LET location   == find(F.info.jump_tree, pos).location
            z_offset   == location[1]
            s_offset   == location[2]
            additional == pos - z_offset
            l          == IF s_offset # F1.stream_offset
                          THEN load_stream_item(
                                   [F1 EXCEPT !.stream_offset = s_offset,
                                              !.stream_pos = s_offset])
                          ELSE [ok |-> TRUE, f |-> F1]
            header_len == Len(l.f.zip_header)
            o          == IF l.f.data THEN [ok |-> TRUE, f |-> l.f]
                          ELSE open_data_file(l.f)
            in_data    == additional - header_len
        IN  IF ~l.ok THEN l
            ELSE IF additional < header_len
            THEN [ok |-> TRUE,
                  f  |-> [l.f EXCEPT !.state = HEADER, !.offset = additional]]
            ELSE IF ~o.ok THEN [ok |-> FALSE, f |-> [l.f EXCEPT !.state = DATA]]
            ELSE IF in_data < o.f.data_len
            THEN [ok |-> TRUE,
                  f  |-> [o.f EXCEPT !.state = DATA, !.data_pos = in_data]]
            ELSE [ok |-> TRUE,
                  f  |-> [o.f EXCEPT !.state = DESCRIPTOR,
                                     !.offset = in_data - o.f.data_len]]

\* File.__init__ up to its call of _load_stream_item
new_file(name, info, depth) ==
    [open |-> TRUE, path |-> name, info |-> info, depth |-> depth,
     cursor |-> 0, offset |-> 0, state |-> HEADER, stream_offset |-> 0,
     zip_header |-> <<>>, descriptor |-> <<>>,
     data |-> FALSE, data_name |-> data_name(<<>>, 0), data_len |-> 0,
     data_file |-> data_name(<<>>, 0), leaked |-> FALSE,
     data_pos |-> 0, stream_pos |-> 0, dir_pos |-> 0]

----------------------------------------------------------------------------
(* xzip/fs.py: the operations on a handle *)

\* State-space reduction, not program code: a field that every path of
\* readinto and seek assigns before it reads it again is kept at a fixed
\* value.  The position of the directory sidecar is read only in DIRECTORY
\* and set on every entry to it; offset is read only in HEADER and DESCRIPTOR
\* and set on every entry to them; a closed blob has no position, and
\* data_len is set by every _open_data_file; in DIRECTORY with stream_offset
\* unset the next seek into the body reloads the stream item.
Reduced(F) ==
    LET unloaded == F.state = DIRECTORY /\ F.stream_offset = None
    IN  [F EXCEPT
           !.dir_pos    = IF F.state = DIRECTORY THEN @ ELSE 0,
           !.offset     = IF F.state \in {HEADER, DESCRIPTOR} THEN @ ELSE 0,
           !.data_pos   = IF F.data THEN @ ELSE 0,
           !.data_len   = IF F.data THEN @ ELSE 0,
           !.data_file  = IF F.data THEN @ ELSE data_name(<<>>, 0),
           !.stream_pos = IF unloaded THEN 0 ELSE @,
           !.zip_header = IF unloaded THEN <<>> ELSE @,
           !.descriptor = IF unloaded THEN <<>> ELSE @,
           !.data_name  = IF unloaded THEN data_name(<<>>, 0) ELSE @]

\* ExplodedZip._exploded_info(path)
exploded_info_of(name) ==
    IF name \in DOMAIN exploded_info
    THEN [ok |-> TRUE, info |-> exploded_info[name]]
    ELSE IF name \notin DOMAIN sidecars THEN [ok |-> FALSE]
    ELSE load_info(sidecars[name].jump)

\* ExplodedZip.open(path, flags)
Open(name) ==
    /\ ~file.open
    /\ opens < MaxOpens
    /\ opens' = opens + 1
    /\ \E i \in {exploded_info_of(name)} :
       \E l \in {IF i.ok
                 THEN load_stream_item(new_file(name, i.info, MountDepth))
                 ELSE [ok |-> FALSE]} :
           /\ exploded_info' = IF i.ok THEN (name :> i.info) @@ exploded_info
                               ELSE exploded_info
           /\ file' = IF i.ok /\ l.ok THEN Reduced(l.f) ELSE file
           /\ result' = [op |-> "open", name |-> name,
                         status |-> IF i.ok /\ l.ok THEN "ok" ELSE "error"]
    /\ sequential' = TRUE
    /\ UNCHANGED <<fsvars, srvvars>>

\* File.readinto on the handle's cursor
ReadInto(count) ==
    /\ file.open
    /\ \E r \in {readinto(file, count)} :
         /\ file' = Reduced(r.f)
         /\ result' = [op |-> "read", at |-> file.cursor, bytes |-> r.bytes,
                       status |-> IF r.ok THEN "ok" ELSE "error"]
    /\ UNCHANGED <<fsvars, opens, exploded_info, sequential, srvvars>>

\* File.read on the handle's cursor
Read(count) ==
    /\ file.open
    /\ \E r \in {read(file, count)} :
         /\ file' = Reduced(r.f)
         /\ result' = [op |-> "read", at |-> file.cursor, bytes |-> r.bytes,
                       status |-> IF r.ok THEN "ok" ELSE "error"]
    /\ UNCHANGED <<fsvars, opens, exploded_info, sequential, srvvars>>

\* File.seek on the handle's cursor
Seek(pos) ==
    /\ file.open
    /\ LET r == seek(file, pos)
       IN  /\ file' = Reduced(r.f)
           /\ result' = [op |-> "seek", pos |-> pos,
                         moved |-> pos # file.cursor,
                         status |-> IF r.ok THEN "ok" ELSE "error"]
    /\ sequential' = FALSE
    /\ UNCHANGED <<fsvars, opens, exploded_info, srvvars>>

\* ExplodedZip.release(path, fh)
Release ==
    /\ file.open
    /\ file' = NoFile
    /\ result' = [op |-> "release"]
    /\ sequential' = FALSE
    /\ UNCHANGED <<fsvars, opens, exploded_info, srvvars>>

\* the jump entries (z_off, s_off) of a jump sidecar
jump_entries(jump) == unpack_stream(FileRead(jump, JUMP_ITEM_size, Len(jump))).items

\* the stream item at s_off of a stream sidecar, as _load_stream_item reads it
stream_item(stream, s_off) ==
    LET raw    == FileRead(stream, s_off, STREAM_ITEM_size)
        header == STREAM_ITEM_unpack(raw)
        p1     == s_off + STREAM_ITEM_size
        var    == FileRead(stream, p1, header.filename_len
                                         + header.extra_field_len)
    IN  [zip_header |-> Slice(raw, 0, HEADER_DIFF) \o var,
         descriptor |-> FileRead(stream, p1 + Len(var), header.descriptor_len),
         sha        |-> header.sha,
         header     |-> header]

\* the base directory the mount serves: every input file exploded into it
Base ==
    explode_all(<<"a", "b", "c", "d", "e", "n", "s">>, MountDepth,
                [base |-> [isdir |-> {}, sidecars |-> <<>>, blobs |-> <<>>,
                           writes |-> <<>>, status |-> "none"],
                 done |-> {}, statuses |-> <<>>])

\* the offsets at which the components of one item start and end: header,
\* blob, descriptor, next item
ItemBoundaries(stream, e) ==
    UNION {{e[1], e[1] + hl, e[1] + hl + dl,
            e[1] + hl + dl + Len(item.descriptor)} :
           item \in {stream_item(stream, e[2])},
           hl \in {Len(stream_item(stream, e[2]).zip_header)},
           dl \in {Len(blobs[data_name(hexdigest(
                                 stream_item(stream, e[2]).sha), MountDepth)])}}

\* the offsets at which a component of the virtual file starts or ends
Boundaries(name) ==
    UNION {{0, head[1], head[2]}
             \cup UNION {ItemBoundaries(sidecars[name].stream, entries[k]) :
                            k \in 1..Len(entries)} :
           head \in {JUMP_ITEM_unpack(
                        FileRead(sidecars[name].jump, 0, JUMP_ITEM_size))},
           entries \in {jump_entries(sidecars[name].jump)}}

\* the offsets seek is called with: those within SeekSlack of a boundary
SeekTargets(name) ==
    UNION {{p \in (b - SeekSlack)..(b + SeekSlack) : p >= 0 /\ p <= filesize} :
           b \in Boundaries(name),
           filesize \in {JUMP_ITEM_unpack(
                            FileRead(sidecars[name].jump, 0, JUMP_ITEM_size))[1]}}

InitMount ==
    \E all \in {Base} :
        /\ isdir = all.base.isdir
        /\ sidecars = all.base.sidecars
        /\ stats = created(<<>>, all.base.sidecars)
        /\ blobs = all.base.blobs
        /\ writes = all.base.writes
        /\ exploded = {<<name, MountDepth>> : name \in all.done}
        /\ runs = 0
        /\ opens = 0
        /\ exploded_info = <<>>
        /\ file = NoFile
        /\ sequential = FALSE
        /\ result = [op |-> "none"]
        /\ handles = <<>>
        /\ objs = <<>>
        /\ fh = 0
        /\ fh_lock = 0
        /\ pc = [t \in Threads |-> [at |-> "idle"]]

NextMount ==
    \/ \E name \in Names : Open(name)
    \/ \E count \in ReadCounts : ReadInto(count)
    \/ \E count \in ReadCounts : Read(count)
    \/ \E pos \in (IF file.open THEN SeekTargets(file.path) ELSE {}) : Seek(pos)
    \/ Release

SpecMount == InitMount /\ [][NextMount]_vars

\* the offsets outside [0, filesize] seek is called with
OutsideTargets(F) == {0 - 1, F.info.filesize + 1}

NextSeek ==
    \/ NextMount
    \/ \E pos \in (IF file.open THEN OutsideTargets(file) ELSE {}) : Seek(pos)

SpecSeek == InitMount /\ [][NextSeek]_vars

\* a handle that is opened and then read again and again: the caller calls
\* readinto as long as it has not seen the end
NextRead ==
    \/ \E name \in Names : Open(name)
    \/ \E count \in ReadCounts : ReadInto(count)

Reads == \E count \in ReadCounts : ReadInto(count)

SpecRead == InitMount /\ [][NextRead]_vars /\ WF_vars(Reads)

----------------------------------------------------------------------------
(* xzip/fs.py: the handlers of ExplodedZip that are asked to change the mount *)

\* the handlers bound to _not_supported
NotSupportedOps ==
    {"create", "listxattr", "mkdir", "mknod", "removexattr", "rename",
     "rmdir", "truncate", "unlink", "write"}

\* the names link and symlink are called with: targets not in BASE/meta at
\* the start, sources that explode wrote and one that does not exist
LinkTargets == {"x", "y"}
LinkSources == {"a", "b", "z"}

\* ExplodedZip._not_supported
NotSupported(op) ==
    /\ result' = [op |-> op, status |-> "ENOTSUP"]
    /\ UNCHANGED <<fsvars, opens, exploded_info, file, sequential, srvvars>>

\* the name whose meta files the meta files of a name are: its own, or those
\* of the source it was linked to
origin(name) ==
    IF "of" \in DOMAIN sidecars[name] THEN sidecars[name].of ELSE name

\* path.islink of the meta files of a name
islink(name) ==
    /\ name \in DOMAIN sidecars
    /\ "of" \in DOMAIN sidecars[name]
    /\ sidecars[name].kind = "sym"

\* the meta files of target made links of kind to those of source
linked(target, source, kind) ==
    (target :> [jump |-> sidecars[source].jump,
                stream |-> sidecars[source].stream,
                dir |-> sidecars[source].dir,
                of |-> origin(source), kind |-> kind]) @@ sidecars

\* ExplodedZip.link(target, source): os.link of each meta file unless the
\* target is that file already
Link(target, source) ==
    /\ IF source \notin DOMAIN sidecars
       THEN /\ result' = [op |-> "link", target |-> target,
                          status |-> "ENOENT"]
            /\ UNCHANGED sidecars
       ELSE IF target \notin DOMAIN sidecars
       THEN /\ sidecars' = linked(target, source, "hard")
            /\ result' = [op |-> "link", target |-> target, status |-> "ok"]
       ELSE IF origin(source) = origin(target)
       THEN /\ result' = [op |-> "link", target |-> target, status |-> "ok"]
            /\ UNCHANGED sidecars
       ELSE /\ result' = [op |-> "link", target |-> target,
                          status |-> "EEXIST"]
            /\ UNCHANGED sidecars
    /\ UNCHANGED <<isdir, stats, blobs, writes, exploded, runs, opens,
                   exploded_info, file, sequential, srvvars>>

\* ExplodedZip.symlink(target, source): os.symlink of each meta file unless
\* the target is a symbolic link to that file already
Symlink(target, source) ==
    /\ source \in DOMAIN sidecars
    /\ IF target \notin DOMAIN sidecars
       THEN /\ sidecars' = linked(target, source, "sym")
            /\ result' = [op |-> "symlink", target |-> target,
                          status |-> "ok"]
       ELSE IF islink(target) /\ sidecars[target].of = source
       THEN /\ result' = [op |-> "symlink", target |-> target,
                          status |-> "ok"]
            /\ UNCHANGED sidecars
       ELSE /\ result' = [op |-> "symlink", target |-> target,
                          status |-> "EEXIST"]
            /\ UNCHANGED sidecars
    /\ UNCHANGED <<isdir, stats, blobs, writes, exploded, runs, opens,
                   exploded_info, file, sequential, srvvars>>

\* ExplodedZip.readdir('/'): the names of the virtual archives
readdir == DOMAIN sidecars

NextOps ==
    \/ \E op \in NotSupportedOps : NotSupported(op)
    \/ \E target \in LinkTargets, source \in LinkSources :
          Link(target, source)
    \/ \E target \in LinkTargets, source \in LinkSources :
          Symlink(target, source)

SpecOps == InitMount /\ [][NextOps]_vars

----------------------------------------------------------------------------
(* xzip/fs.py: chmod and chown of ExplodedZip on the three meta files *)

\* the virtual archives chmod and chown are called on, the modes and the ids
\* they are called with
AttrNames == {"a"}
Modes == {S_IFREG + 384, S_IFREG + 420}
Ids == {1, 2}

\* the meta files in the order of _metafiles: .dir, .stream, .jump
MetaFiles == 1..3

\* os.chmod(filename, mode): the permission bits of the file become those
\* of mode
os_chmod(st, mode) == [st EXCEPT !.mode = S_IFREG + (mode % 4096)]

\* os.chown(filename, uid, gid)
os_chown(st, uid, gid) == [st EXCEPT !.uid = uid, !.gid = gid]

RECURSIVE chmod_each(_, _, _, _)
\* the first loop of chmod from meta file k on; os.chmod raises on file fail
chmod_each(sts, k, mode, fail) ==
    IF k \notin MetaFiles THEN [ok |-> TRUE, sts |-> sts]
    ELSE IF sts[k].mode = mode THEN chmod_each(sts, k + 1, mode, fail)
    ELSE IF fail = k THEN [ok |-> FALSE, sts |-> sts]
    ELSE chmod_each([sts EXCEPT ![k] = os_chmod(@, mode)], k + 1, mode, fail)

RECURSIVE chmod_back(_, _, _, _)
\* the loop in the except clause of chmod from meta file k on; os.chmod
\* raises on file rfail, which ends the loop
chmod_back(sts, k, file_info, rfail) ==
    IF k \notin MetaFiles THEN [raised |-> "none", sts |-> sts]
    ELSE IF sts[k].mode = file_info[k].mode
    THEN chmod_back(sts, k + 1, file_info, rfail)
    ELSE IF rfail = k THEN [raised |-> "OSError", sts |-> sts]
    ELSE chmod_back([sts EXCEPT ![k] = os_chmod(@, file_info[k].mode)],
                    k + 1, file_info, rfail)

RECURSIVE chown_each(_, _, _, _, _)
\* the first loop of chown from meta file k on: os.chown(filename, gid, uid)
chown_each(sts, k, gid, uid, fail) ==
    IF k \notin MetaFiles THEN [ok |-> TRUE, sts |-> sts]
    ELSE IF ~(gid # sts[k].gid \/ uid # sts[k].uid)
    THEN chown_each(sts, k + 1, gid, uid, fail)
    ELSE IF fail = k THEN [ok |-> FALSE, sts |-> sts]
    ELSE chown_each([sts EXCEPT ![k] = os_chown(@, gid, uid)],
                    k + 1, gid, uid, fail)

RECURSIVE chown_back(_, _, _, _)
\* the loop in the except clause of chown from meta file k on:
\* os.chown(filename, previous.st_gid, previous.st_uid) when the group
\* differs; when it does not, the second operand names current_mode, which
\* is not defined, and the NameError ends the loop
chown_back(sts, k, file_info, rfail) ==
    IF k \notin MetaFiles THEN [raised |-> "none", sts |-> sts]
    ELSE IF sts[k].gid = file_info[k].gid
    THEN [raised |-> "NameError", sts |-> sts]
    ELSE IF rfail = k THEN [raised |-> "OSError", sts |-> sts]
    ELSE chown_back([sts EXCEPT ![k] = os_chown(@, file_info[k].gid,
                                               file_info[k].uid)],
                    k + 1, file_info, rfail)

\* ExplodedZip.chmod(path, mode)
Chmod(name, mode, fail, rfail) ==
    /\ name \in DOMAIN stats
    /\ \E r \in {chmod_each(stats[name], 1, mode, fail)} :
         IF r.ok
         THEN /\ stats' = [stats EXCEPT ![name] = r.sts]
              /\ result' = [op |-> "chmod", name |-> name, status |-> "ok",
                            raised |-> "none"]
         ELSE \E b \in {chmod_back(r.sts, 1, stats[name], rfail)} :
                /\ stats' = [stats EXCEPT ![name] = b.sts]
                /\ result' = [op |-> "chmod", name |-> name,
                              status |-> "EACCES", raised |-> b.raised]
    /\ UNCHANGED <<isdir, sidecars, blobs, writes, exploded, runs, opens,
                   exploded_info, file, sequential, srvvars>>

\* ExplodedZip.chown(path, gid, uid)
Chown(name, gid, uid, fail, rfail) ==
    /\ name \in DOMAIN stats
    /\ \E r \in {chown_each(stats[name], 1, gid, uid, fail)} :
         IF r.ok
         THEN /\ stats' = [stats EXCEPT ![name] = r.sts]
              /\ result' = [op |-> "chown", name |-> name, status |-> "ok",
                            raised |-> "none"]
         ELSE \E b \in {chown_back(r.sts, 1, stats[name], rfail)} :
                /\ stats' = [stats EXCEPT ![name] = b.sts]
                /\ result' = [op |-> "chown", name |-> name,
                              status |-> "EACCES", raised |-> b.raised]
    /\ UNCHANGED <<isdir, sidecars, blobs, writes, exploded, runs, opens,
                   exploded_info, file, sequential, srvvars>>

NextAttr ==
    \/ \E name \in AttrNames, mode \in Modes :
          \E fail, rfail \in {0} \cup MetaFiles :
             Chmod(name, mode, fail, rfail)
    \/ \E name \in AttrNames, gid, uid \in Ids :
          \E fail, rfail \in {0} \cup MetaFiles :
             Chown(name, gid, uid, fail, rfail)

SpecAttr == InitMount /\ [][NextAttr]_vars

----------------------------------------------------------------------------
(* io.BufferedReader(raw) of ExplodedZip.open, as ExplodedZip.read drives it *)

\* io.DEFAULT_BUFFER_SIZE, the buffer of BufferedReader(raw)
BUFFER_SIZE == 8192

\* BufferedReader(raw): an empty buffer, the raw position as told by raw
new_reader(F) == [raw |-> F, buf |-> <<>>, bpos |-> 0, abs_pos |-> F.cursor]

RECURSIVE fill_buffer(_, _, _)
\* the loop of reader.read that refills the buffer from raw.readinto until
\* the request is served, raw returns nothing, or raw raises; out is what the
\* call has collected so far
fill_buffer(R, out, remaining) ==
    CHOOSE res \in
        {IF ~x.ok
         THEN [ok |-> FALSE, bytes |-> <<>>, r |-> [R EXCEPT !.raw = x.f]]
         ELSE IF x.bytes = <<>>
         THEN [ok |-> TRUE, bytes |-> out, r |-> [R EXCEPT !.raw = x.f]]
         ELSE IF remaining > Len(x.bytes)
         THEN fill_buffer([R EXCEPT !.raw = x.f, !.buf = @ \o x.bytes,
                                    !.abs_pos = @ + Len(x.bytes),
                                    !.bpos = @ + Len(x.bytes)],
                          out \o x.bytes, remaining - Len(x.bytes))
         ELSE [ok |-> TRUE, bytes |-> out \o SubSeq(x.bytes, 1, remaining),
               r  |-> [R EXCEPT !.raw = x.f, !.buf = @ \o x.bytes,
                                !.abs_pos = @ + Len(x.bytes),
                                !.bpos = @ + remaining]] :
         x \in {readinto(R.raw, BUFFER_SIZE - Len(R.buf))}} : TRUE

\* reader.read(size), size > 0: from the buffer when it holds enough, else
\* what the buffer holds followed by refills of a buffer started afresh
reader_read(R, size) ==
    LET avail == Len(R.buf) - R.bpos
    IN  IF size <= avail
        THEN [ok |-> TRUE, bytes |-> SubSeq(R.buf, R.bpos + 1, R.bpos + size),
              r  |-> [R EXCEPT !.bpos = @ + size]]
        ELSE fill_buffer([R EXCEPT !.buf = <<>>, !.bpos = 0],
                         SubSeq(R.buf, R.bpos + 1, Len(R.buf)), size - avail)

\* reader.seek(target): inside the buffered bytes only the buffer position
\* moves; otherwise raw.seek(target) and, when it returns, an empty buffer
reader_seek(R, target) ==
    LET avail  == Len(R.buf) - R.bpos
        offset == target - (R.abs_pos - avail)
    IN  IF avail > 0 /\ offset >= 0 - R.bpos /\ offset <= avail
        THEN [ok |-> TRUE, r |-> [R EXCEPT !.bpos = @ + offset]]
        ELSE CHOOSE res \in
                 {IF x.ok
                  THEN [ok |-> TRUE,
                        r  |-> [raw |-> x.f, buf |-> <<>>, bpos |-> 0,
                                abs_pos |-> target]]
                  ELSE [ok |-> FALSE, r |-> [R EXCEPT !.raw = x.f]] :
                  x \in {seek(R.raw, target)}} : TRUE

----------------------------------------------------------------------------
(* Reference values taken from the layout of the input files *)

\* the archives a run of explode has completed on
ExplodedNames == {run[1] : run \in exploded}

\* the entries of a ZIP input file lie back to back from offset 0 in
\* central-directory order, and there is at least one
BackToBack(name) ==
    /\ name \in ZipNames
    /\ Layout[name].prefix = <<>>
    /\ Len(Layout[name].entries) >= 1
    /\ Layout[name].cdorder = [k \in 1..Len(Layout[name].entries) |-> k]

\* the entry that central directory record k of a ZIP input file describes
CdEntry(name, k) == Layout[name].entries[Layout[name].cdorder[k]]

\* the archive offset of that entry's local header
CdOffset(name, k) ==
    LocalOffset(Layout[name].prefix, Layout[name].entries,
                Layout[name].cdorder[k])

\* the last read on the handle returned the bytes of the original archive at
\* the cursor position it started from, and nothing only at the end
ReadIsOriginal ==
    /\ result.status = "ok"
    /\ result.bytes = Slice(Files[file.path], result.at,
                            result.at + Len(result.bytes))
    /\ (result.bytes = <<>> => result.at >= Len(Files[file.path]))

\* the archive offset of the first byte after the payload of the entry that
\* central directory record k describes
AfterPayload(name, k) ==
    CdOffset(name, k) + LOCAL_HEADER_size + Len(CdEntry(name, k).name)
        + Len(CdEntry(name, k).extra) + Len(CdEntry(name, k).payload)

----------------------------------------------------------------------------
(* xzip/fs.py: the handlers of ExplodedZip as FUSE threads run them *)

Idle == [at |-> "idle"]

\* the archives the threads open: a well-formed one and one without entries
ServeNames == {"a", "e"}

\* the (offset, size) pairs the threads read: the start of the file and
\* the last byte of the first payload
ServeRequests(name) ==
    IF name \notin ZipNames \/ Layout[name].entries = <<>> THEN {<<0, 1>>}
    ELSE {<<0, 40 + MaxRead>>, <<AfterPayload(name, 1) - 1, 1>>}

\* the (lock, reader) pairs still referenced, by the registry or by a thread
\* inside read; the others are garbage
Collect(o, h, p) ==
    [id \in {x \in DOMAIN o :
                \/ \E k \in DOMAIN h : h[k] = x
                \/ \E t \in Threads : p[t].at = "read" /\ p[t].obj = x}
        |-> o[id]]

\* the reader with the dead fields of its File at fixed values
Canon(R) == [R EXCEPT !.raw = Reduced(@)]

\* ExplodedZip.open: with self.__fh_lock
OpenLock(t, name) ==
    /\ pc[t].at = "idle"
    /\ fh_lock = 0
    /\ opens < MaxHandles
    /\ fh_lock' = t
    /\ pc' = [pc EXCEPT ![t] = [at |-> "open", name |-> name]]
    /\ UNCHANGED <<fsvars, opens, exploded_info, file, sequential, result,
                   handles, objs, fh>>

\* ExplodedZip.open: the body under the lock and the release of the lock; an
\* exception of File() leaves the with block after the reset of __fh
OpenBody(t) ==
    /\ pc[t].at = "open"
    /\ fh_lock' = 0
    /\ opens' = opens + 1
    /\ pc' = [pc EXCEPT ![t] = Idle]
    /\ \E fh0 \in {IF DOMAIN handles = {} THEN 0 ELSE fh},
          i \in {exploded_info_of(pc[t].name)} :
         \E l \in {IF i.ok
                    THEN load_stream_item(
                             new_file(pc[t].name, i.info, MountDepth))
                    ELSE [ok |-> FALSE]} :
           /\ exploded_info' = IF i.ok
                               THEN (pc[t].name :> i.info) @@ exploded_info
                               ELSE exploded_info
           /\ IF l.ok
              THEN /\ handles' = (fh0 :> (opens + 1)) @@ handles
                   /\ objs' = ((opens + 1) :>
                                  [lock |-> 0,
                                   reader |-> Canon(new_reader(l.f))]) @@ objs
                   /\ fh' = fh0 + 1
                   /\ result' = [op |-> "open", thread |-> t, fh |-> fh0,
                                 status |-> "ok"]
              ELSE /\ fh' = fh0
                   /\ result' = [op |-> "open", thread |-> t,
                                 status |-> "error"]
                   /\ UNCHANGED <<handles, objs>>
    /\ UNCHANGED <<fsvars, file, sequential>>

\* ExplodedZip.read: lock, reader = self.__handles[fh]
ReadBegin(t, h, offset, size) ==
    /\ pc[t].at = "idle"
    /\ h \in DOMAIN handles
    /\ pc' = [pc EXCEPT ![t] = [at |-> "read", stage |-> "lookup",
                                obj |-> handles[h], fh |-> h,
                                offset |-> offset, size |-> size]]
    /\ UNCHANGED <<fsvars, opens, exploded_info, file, sequential, result,
                   handles, objs, fh, fh_lock>>

\* ExplodedZip.read: with lock
ReadLock(t) ==
    /\ pc[t].at = "read" /\ pc[t].stage = "lookup"
    /\ objs[pc[t].obj].lock = 0
    /\ objs' = [objs EXCEPT ![pc[t].obj].lock = t]
    /\ pc' = [pc EXCEPT ![t].stage = "locked"]
    /\ UNCHANGED <<fsvars, opens, exploded_info, file, sequential, result,
                   handles, fh, fh_lock>>

\* ExplodedZip.read: reader.seek(offset); an exception releases the lock
ReadSeek(t) ==
    /\ pc[t].at = "read" /\ pc[t].stage = "locked"
    /\ \E x \in {reader_seek(objs[pc[t].obj].reader, pc[t].offset)} :
         IF x.ok
         THEN /\ objs' = [objs EXCEPT ![pc[t].obj].reader = Canon(x.r)]
              /\ pc' = [pc EXCEPT ![t].stage = "sought"]
              /\ UNCHANGED result
         ELSE /\ pc' = [pc EXCEPT ![t] = Idle]
              /\ objs' = Collect([objs EXCEPT
                                    ![pc[t].obj].reader = Canon(x.r),
                                    ![pc[t].obj].lock = 0], handles, pc')
              /\ result' = [op |-> "read", thread |-> t, fh |-> pc[t].fh,
                            name |-> x.r.raw.path, offset |-> pc[t].offset,
                            size |-> pc[t].size, bytes |-> <<>>,
                            status |-> "error"]
    /\ UNCHANGED <<fsvars, opens, exploded_info, file, sequential,
                   handles, fh, fh_lock>>

\* ExplodedZip.read: return reader.read(size), and the release of the lock
ReadRead(t) ==
    /\ pc[t].at = "read" /\ pc[t].stage = "sought"
    /\ pc' = [pc EXCEPT ![t] = Idle]
    /\ \E x \in {reader_read(objs[pc[t].obj].reader, pc[t].size)} :
         /\ objs' = Collect([objs EXCEPT ![pc[t].obj].reader = Canon(x.r),
                                         ![pc[t].obj].lock = 0], handles, pc')
         /\ result' = [op |-> "read", thread |-> t, fh |-> pc[t].fh,
                       name |-> x.r.raw.path, offset |-> pc[t].offset,
                       size |-> pc[t].size, bytes |-> x.bytes,
                       status |-> IF x.ok THEN "ok" ELSE "error"]
    /\ UNCHANGED <<fsvars, opens, exploded_info, file, sequential,
                   handles, fh, fh_lock>>

\* ExplodedZip.release: del self.__handles[fh]
ReleaseHandle(t, h) ==
    /\ pc[t].at = "idle"
    /\ h \in DOMAIN handles
    /\ handles' = [k \in DOMAIN handles \ {h} |-> handles[k]]
    /\ objs' = Collect(objs, handles', pc)
    /\ result' = [op |-> "release", thread |-> t, fh |-> h]
    /\ UNCHANGED <<fsvars, opens, exploded_info, file, sequential,
                   fh, fh_lock, pc>>

\* ExplodedZip.destroy, called when the file system is unmounted: no other
\* handler runs then or later
Destroy(t) ==
    /\ \A u \in Threads : pc[u].at = "idle"
    /\ exploded_info' = <<>>
    /\ handles' = <<>>
    /\ objs' = <<>>
    /\ pc' = [u \in Threads |-> [at |-> "exit"]]
    /\ result' = [op |-> "destroy", thread |-> t]
    /\ UNCHANGED <<fsvars, opens, file, sequential, fh, fh_lock>>

\* the environment removes the file of a blob from the pool
LoseBlob ==
    /\ LostBlob \in DOMAIN blobs
    /\ writes[LostBlob] = 1
    /\ blobs' = [n \in DOMAIN blobs \ {LostBlob} |-> blobs[n]]
    /\ UNCHANGED <<isdir, sidecars, stats, writes, exploded, runs, opens,
                   exploded_info, file, sequential, result, srvvars>>

\* the environment puts the file of the blob back
RestoreBlob ==
    /\ LostBlob \notin DOMAIN blobs
    /\ blobs' = (LostBlob :> Removed[LostBlob]) @@ blobs
    /\ writes' = [writes EXCEPT ![LostBlob] = 2]
    /\ UNCHANGED <<isdir, sidecars, stats, exploded, runs, opens,
                   exploded_info, file, sequential, result, srvvars>>

NextServe ==
    \/ \E t \in Threads, name \in ServeNames : OpenLock(t, name)
    \/ \E t \in Threads : OpenBody(t)
    \/ \E t \in Threads, h \in DOMAIN handles :
         \E q \in ServeRequests(objs[handles[h]].reader.raw.path) :
            ReadBegin(t, h, q[1], q[2])
    \/ \E t \in Threads : ReadLock(t)
    \/ \E t \in Threads : ReadSeek(t)
    \/ \E t \in Threads : ReadRead(t)
    \/ \E t \in Threads, h \in DOMAIN handles : ReleaseHandle(t, h)
    \/ \E t \in Threads : Destroy(t)
    \/ LoseBlob
    \/ RestoreBlob

SpecServe == InitMount /\ [][NextServe]_vars

----------------------------------------------------------------------------
(* xzip/explode.py: archives with a comment behind the end-of-directory    *)
(* record                                                                  *)

\* the greatest comment_len the end-of-directory record can carry ('H')
MaxCommentLen == 65535

\* a comment of n bytes without the marker
PlainComment(n) == [i \in 1..n |-> 33]

\* a comment of n bytes that holds the end-of-directory marker at index p
MarkedComment(n, p) ==
    [i \in 1..n |-> IF i > p /\ i <= p + Len(END_OF_DIR_marker)
                    THEN END_OF_DIR_marker[i - p] ELSE 33]

\* the comments explode meets: every length up to MaxComment, with and
\* without the marker inside, and the longest one
Comments ==
    {PlainComment(n) : n \in 1..MaxComment}
        \cup UNION {{MarkedComment(n, p) :
                        p \in 0..(n - Len(END_OF_DIR_marker))} :
                    n \in Len(END_OF_DIR_marker)..MaxComment}
        \cup {PlainComment(MaxCommentLen)}

\* the archives that are given a comment
CommentedNames == {"a", "c", "e"}

\* the input file of that layout with the comment behind its end record
CommentedZip(name, comment) ==
    Zip(Layout[name].prefix, Layout[name].entries, Layout[name].cdorder,
        comment)

\* one run of explode on a commented archive in an empty base
ExplodeCommented(name, comment) ==
    /\ runs = 0
    /\ runs' = runs + 1
    /\ UNCHANGED <<opens, exploded_info, file, sequential, srvvars>>
    /\ \E fs \in {process_zip_file([isdir |-> isdir, sidecars |-> sidecars,
                                     blobs |-> blobs, writes |-> writes,
                                     status |-> "none"],
                                    CommentedZip(name, comment), name, 0)} :
           /\ isdir' = fs.isdir
           /\ sidecars' = fs.sidecars
           /\ stats' = created(stats, fs.sidecars)
           /\ blobs' = fs.blobs
           /\ writes' = fs.writes
           /\ exploded' = IF fs.status = "ok"
                          THEN exploded \cup {<<name, 0>>} ELSE exploded
           /\ result' = [op |-> "explode", name |-> name, depth |-> 0,
                         comment |-> comment, status |-> fs.status]

NextComment ==
    \E name \in CommentedNames, comment \in Comments :
        ExplodeCommented(name, comment)

SpecComment == InitBase /\ [][NextComment]_vars

----------------------------------------------------------------------------
(* fs.py, the older variant: the stateless read(filename, offset, count)   *)
(* beside the cursor of File                                               *)

\* out.seek(0); return out.read(count)
out_read(out, count) == SubSeq(out, 1, Min(count, Len(out)))

RECURSIVE read_stream(_, _, _, _, _, _)
\* _read_stream(stream, offset, count, base, depth), the loop with the
\* stream at position spos and the buffer out: header and variable fields
\* from offset on, the blob from its start, the descriptor
read_stream(stream, spos, offset, out, count, depth) ==
    IF ~(count < 0 \/ Len(out) < count) THEN [ok |-> TRUE, bytes |-> out]
    ELSE
    LET raw_header == FileRead(stream, spos, STREAM_ITEM_size)
    IN  IF raw_header = <<>> THEN [ok |-> TRUE, bytes |-> out]
        ELSE IF Len(raw_header) # STREAM_ITEM_size
        THEN [ok |-> FALSE, bytes |-> <<>>]
        ELSE
        LET header     == STREAM_ITEM_unpack(raw_header)
            var_fields == header.filename_len + header.extra_field_len
            name       == data_name(hexdigest(header.sha), depth)
            p1         == spos + STREAM_ITEM_size
            in_header  == offset # 0 /\ offset < ZIP_STREAM_ITEM_size
            out1       == IF offset = 0
                          THEN out \o Slice(raw_header, 0, HEADER_DIFF)
                          ELSE IF in_header
                          THEN out \o Slice(raw_header, offset, HEADER_DIFF)
                          ELSE out
            offset1    == IF offset = 0 \/ in_header THEN 0
                          ELSE offset - ZIP_STREAM_ITEM_size
            in_fields  == offset = 0 \/ offset1 < var_fields
            var        == IF in_fields
                          THEN FileRead(stream, p1 + offset1,
                                        var_fields - offset1)
                          ELSE <<>>
            out2       == out1 \o var
            offset2    == IF in_fields THEN 0 ELSE offset1 - var_fields
            p2         == IF in_fields THEN p1 + offset1 + Len(var)
                          ELSE p1 + var_fields
        IN  IF 0 < count /\ count < Len(out2)
            THEN [ok |-> TRUE, bytes |-> out_read(out2, count)]
            ELSE IF name \notin DOMAIN blobs
            THEN [ok |-> FALSE, bytes |-> <<>>]
            ELSE
            LET data == IF count > 0
                        THEN FileRead(blobs[name], 0, count - Len(out2))
                        ELSE blobs[name]
                desc == FileRead(stream, p2, header.descriptor_len)
                out3 == out2 \o data \o desc
            IN  IF 0 < count /\ count < Len(out3)
                THEN [ok |-> TRUE, bytes |-> out_read(out3, count)]
                ELSE read_stream(stream, p2 + Len(desc), offset2, out3,
                                 count, depth)

\* read(filename, offset, count, begining=True, base, depth) with
\* offset >= 0 and count > 0
fs_read(name, offset, count, depth) ==
    IF name \notin DOMAIN sidecars THEN [ok |-> FALSE, bytes |-> <<>>]
    ELSE
    LET i   == load_info(sidecars[name].jump)
        dir == sidecars[name].dir
    IN  IF ~i.ok THEN [ok |-> FALSE, bytes |-> <<>>]
        ELSE IF offset >= i.info.directory_offset
        THEN [ok |-> TRUE,
              bytes |-> FileRead(dir, offset - i.info.directory_offset,
                                 count)]
        ELSE IF offset > 0 /\ i.info.jump_tree.kind = "none"
        THEN [ok |-> FALSE, bytes |-> <<>>]
        ELSE
        LET pos == IF offset > 0 THEN find(i.info.jump_tree, offset).location
                   ELSE <<0, 0>>
        IN  IF offset - pos[1] < 0 THEN [ok |-> FALSE, bytes |-> <<>>]
            ELSE
            \* bound strictly: one evaluation of the loop
            CHOOSE res \in
                {IF ~s.ok THEN s
                 ELSE IF Len(s.bytes) >= count
                 THEN [ok |-> TRUE, bytes |-> out_read(s.bytes, count)]
                 ELSE [ok |-> TRUE,
                       bytes |-> s.bytes
                                   \o FileRead(dir, 0, count - Len(s.bytes))] :
                 s \in {read_stream(sidecars[name].stream, pos[2],
                                    offset - pos[1], <<>>, count, depth)}} :
                TRUE

RECURSIVE read_count(_, _)
\* reads on a File until count bytes have come, or none, or an exception
read_count(F, count) ==
    IF count = 0 THEN [ok |-> TRUE, bytes |-> <<>>]
    ELSE CHOOSE res \in
             UNION {IF ~r.ok THEN {[ok |-> FALSE, bytes |-> <<>>]}
                    ELSE IF r.bytes = <<>> THEN {[ok |-> TRUE, bytes |-> <<>>]}
                    ELSE {[ok |-> rest.ok, bytes |-> r.bytes \o rest.bytes] :
                          rest \in {read_count(r.f, count - Len(r.bytes))}} :
                    r \in {read(F, count)}} : TRUE

\* File(filename), seek(offset) and the reads of count bytes
cursor_read(name, offset, count, depth) ==
    IF name \notin DOMAIN sidecars THEN [ok |-> FALSE, bytes |-> <<>>]
    ELSE CHOOSE res \in
        UNION {IF ~i.ok THEN {[ok |-> FALSE, bytes |-> <<>>]}
               ELSE UNION {
                 IF ~l.ok THEN {[ok |-> FALSE, bytes |-> <<>>]}
                 ELSE {IF ~o.ok THEN [ok |-> FALSE, bytes |-> <<>>]
                       ELSE read_count(o.f, count) :
                       o \in {seek(l.f, offset)}} :
                 l \in {load_stream_item(
                            new_file(name, i.info, depth))}} :
               i \in {load_info(sidecars[name].jump)}} : TRUE

\* the archives read, and the offsets in [0, filesize) of one of them
StatelessNames == {"a", "b", "c", "d", "e"}
StatelessOffsets(name) == 0..(Len(Files[name]) - 1)

\* one call of the stateless read
StatelessRead(name, offset, count) ==
    /\ result.op = "none"
    /\ \E r \in {fs_read(name, offset, count, MountDepth)} :
         result' = [op |-> "read", by |-> "stateless", name |-> name,
                    offset |-> offset, count |-> count, bytes |-> r.bytes,
                    status |-> IF r.ok THEN "ok" ELSE "error"]
    /\ UNCHANGED <<fsvars, opens, exploded_info, file, sequential, srvvars>>

\* the request of the stateless read through a fresh File
CursorRead ==
    /\ result.op = "read" /\ result.by = "stateless"
    /\ \E r \in {cursor_read(result.name, result.offset, result.count,
                             MountDepth)} :
         result' = [op |-> "read", by |-> "cursor", name |-> result.name,
                    offset |-> result.offset, count |-> result.count,
                    bytes |-> r.bytes, stateless |-> result.bytes,
                    status |-> IF r.ok THEN "ok" ELSE "error"]
    /\ UNCHANGED <<fsvars, opens, exploded_info, file, sequential, srvvars>>

NextStateless ==
    \/ \E name \in StatelessNames, count \in ReadCounts :
         \E offset \in StatelessOffsets(name) :
            StatelessRead(name, offset, count)
    \/ CursorRead

SpecStateless == InitMount /\ [][NextStateless]_vars

----------------------------------------------------------------------------
(* xzip/fs.py: the handle registry of ExplodedZip, statement by statement: *)
(* open, release, _release and _reset as concurrent threads run them       *)

\* open without the test of the registry: the counter is always set back
OpenCheckAlways(t) ==
    /\ pc[t].at = "open" /\ pc[t].step = "check"
    /\ fh' = 0
    /\ pc' = [pc EXCEPT ![t].step = "file"]
    /\ UNCHANGED <<fsvars, opens, exploded_info, file, sequential, result,
                   handles, objs, fh_lock>>

\* open with the counter advanced when File() raises
OpenFileCounts(t) ==
    /\ pc[t].at = "open" /\ pc[t].step = "file"
    /\ \E i \in {exploded_info_of(pc[t].name)} :
         \E l \in {IF i.ok
                    THEN load_stream_item(
                             new_file(pc[t].name, i.info, MountDepth))
                    ELSE [ok |-> FALSE]} :
           /\ exploded_info' = IF i.ok
                               THEN (pc[t].name :> i.info) @@ exploded_info
                               ELSE exploded_info
           /\ IF l.ok
              THEN /\ pc' = [pc EXCEPT ![t] =
                                [at |-> "open", step |-> "insert",
                                 name |-> pc[t].name, fh |-> fh,
                                 raw |-> Reduced(l.f)]]
                   /\ UNCHANGED <<fh, fh_lock, result>>
              ELSE /\ pc' = [pc EXCEPT ![t] = Idle]
                   /\ fh' = fh + 1
                   /\ fh_lock' = 0
                   /\ result' = [op |-> "open", thread |-> t,
                                 status |-> "error"]
    /\ UNCHANGED <<fsvars, opens, file, sequential, handles, objs>>

\* the files the threads open: a well-formed archive, the archive without
\* entries, whose stream sidecar is empty, and a file without sidecars
RegistryNames == {"a", "e", "n"}

\* ExplodedZip.open: with self.__fh_lock
OpenEnter(t, name) ==
    /\ pc[t].at = "idle"
    /\ fh_lock = 0
    /\ opens < MaxRegOpens
    /\ fh_lock' = t
    /\ opens' = opens + 1
    /\ pc' = [pc EXCEPT ![t] = [at |-> "open", step |-> "check",
                                name |-> name]]
    /\ UNCHANGED <<fsvars, exploded_info, file, sequential, result,
                   handles, objs, fh>>

\* ExplodedZip.open: if not self.__handles: self.__fh = 0
OpenCheck(t) ==
    /\ pc[t].at = "open" /\ pc[t].step = "check"
    /\ fh' = IF DOMAIN handles = {} THEN 0 ELSE fh
    /\ pc' = [pc EXCEPT ![t].step = "file"]
    /\ UNCHANGED <<fsvars, opens, exploded_info, file, sequential, result,
                   handles, objs, fh_lock>>

\* ExplodedZip.open: raw = File(path, flags, self._exploded_info(path),
\* fh=self.__fh, ...); an exception leaves the with block
OpenFile(t) ==
    /\ pc[t].at = "open" /\ pc[t].step = "file"
    /\ \E i \in {exploded_info_of(pc[t].name)} :
         \E l \in {IF i.ok
                    THEN load_stream_item(
                             new_file(pc[t].name, i.info, MountDepth))
                    ELSE [ok |-> FALSE]} :
           /\ exploded_info' = IF i.ok
                               THEN (pc[t].name :> i.info) @@ exploded_info
                               ELSE exploded_info
           /\ IF l.ok
              THEN /\ pc' = [pc EXCEPT ![t] =
                                [at |-> "open", step |-> "insert",
                                 name |-> pc[t].name, fh |-> fh,
                                 raw |-> Reduced(l.f)]]
                   /\ UNCHANGED <<fh_lock, result>>
              ELSE /\ pc' = [pc EXCEPT ![t] = Idle]
                   /\ fh_lock' = 0
                   /\ result' = [op |-> "open", thread |-> t,
                                 status |-> "error"]
    /\ UNCHANGED <<fsvars, opens, file, sequential, handles, objs, fh>>

\* ExplodedZip.open: self.__handles[self.__fh] = threading.Lock(),
\* BufferedReader(raw); a pair the registry held under that key is dropped
OpenInsert(t) ==
    /\ pc[t].at = "open" /\ pc[t].step = "insert"
    /\ handles' = (fh :> opens) @@ handles
    /\ pc' = [pc EXCEPT ![t] = [at |-> "open", step |-> "incr",
                                name |-> pc[t].name, fh |-> pc[t].fh]]
    /\ objs' = Collect((opens :> [lock |-> 0,
                                  reader |-> new_reader(pc[t].raw)]) @@ objs,
                       handles', pc')
    /\ UNCHANGED <<fsvars, opens, exploded_info, file, sequential, result,
                   fh, fh_lock>>

\* ExplodedZip.open: self.__fh += 1
OpenIncr(t) ==
    /\ pc[t].at = "open" /\ pc[t].step = "incr"
    /\ fh' = fh + 1
    /\ pc' = [pc EXCEPT ![t].step = "return"]
    /\ UNCHANGED <<fsvars, opens, exploded_info, file, sequential, result,
                   handles, objs, fh_lock>>

\* ExplodedZip.open: return raw.fh, and the release of the lock
OpenReturn(t) ==
    /\ pc[t].at = "open" /\ pc[t].step = "return"
    /\ fh_lock' = 0
    /\ pc' = [pc EXCEPT ![t] = Idle]
    /\ result' = [op |-> "open", thread |-> t, fh |-> pc[t].fh,
                  status |-> "ok"]
    /\ UNCHANGED <<fsvars, opens, exploded_info, file, sequential,
                   handles, objs, fh>>

\* the two operations that drop meta data information
Sweeps == {"_release", "_reset"}

\* ExplodedZip._release and ExplodedZip._reset: with self.__fh_lock
SweepEnter(t, op) ==
    /\ pc[t].at = "idle"
    /\ fh_lock = 0
    /\ fh_lock' = t
    /\ pc' = [pc EXCEPT ![t] = [at |-> op, step |-> "check"]]
    /\ UNCHANGED <<fsvars, opens, exploded_info, file, sequential, result,
                   handles, objs, fh>>

\* _release and _reset: if not self.__handles: self.__fh = 0
SweepCheck(t) ==
    /\ pc[t].at \in Sweeps /\ pc[t].step = "check"
    /\ fh' = IF DOMAIN handles = {} THEN 0 ELSE fh
    /\ pc' = [pc EXCEPT ![t].step = "unlock"]
    /\ UNCHANGED <<fsvars, opens, exploded_info, file, sequential, result,
                   handles, objs, fh_lock>>

\* _release and _reset: the end of the with block
SweepLeave(t) ==
    /\ pc[t].at \in Sweeps /\ pc[t].step = "unlock"
    /\ fh_lock' = 0
    /\ pc' = [pc EXCEPT ![t].step = "info"]
    /\ UNCHANGED <<fsvars, opens, exploded_info, file, sequential, result,
                   handles, objs, fh>>

\* _reset: self.__exploded_info = {}; _release: the dictionary of the weak
\* references to the values, which raises TypeError when there is a value,
\* an ExplodedInfo tuple having no weak references
SweepInfo(t) ==
    /\ pc[t].at \in Sweeps /\ pc[t].step = "info"
    /\ exploded_info' = IF pc[t].at = "_reset" THEN <<>> ELSE exploded_info
    /\ result' = [op |-> pc[t].at, thread |-> t,
                  status |-> IF pc[t].at = "_release"
                                /\ DOMAIN exploded_info # {}
                             THEN "error" ELSE "ok"]
    /\ pc' = [pc EXCEPT ![t] = Idle]
    /\ UNCHANGED <<fsvars, opens, file, sequential,
                   handles, objs, fh, fh_lock>>

NextRegistry ==
    \/ \E t \in Threads, name \in RegistryNames : OpenEnter(t, name)
    \/ \E t \in Threads : OpenCheck(t)
    \/ \E t \in Threads : OpenFile(t)
    \/ \E t \in Threads : OpenInsert(t)
    \/ \E t \in Threads : OpenIncr(t)
    \/ \E t \in Threads : OpenReturn(t)
    \/ \E t \in Threads, h \in DOMAIN handles : ReleaseHandle(t, h)
    \/ \E t \in Threads, op \in Sweeps : SweepEnter(t, op)
    \/ \E t \in Threads : SweepCheck(t)
    \/ \E t \in Threads : SweepLeave(t)
    \/ \E t \in Threads : SweepInfo(t)

SpecRegistry == InitMount /\ [][NextRegistry]_vars

----------------------------------------------------------------------------
(* xzip/explode.py: the blob put of process_file, step by step, in explode *)
(* runs that share one base directory                                      *)

\* the archives the concurrent runs explode, one run per archive, depth 0
PutNames == {"a", "b"}

\* data = file.read(info.compressed_size) of entry k of an archive
put_data(name, k) == CdEntry(name, k).payload

\* data_name of the blob of entry k
put_name(name, k) == data_name(hexdigest(sha1(put_data(name, k))), 0)

\* a write of data at position 0 of a file, as the close of d flushes it
write_at_start(content, data) ==
    data \o (IF Len(content) > Len(data)
             THEN SubSeq(content, Len(data) + 1, Len(content)) ELSE <<>>)

\* a run is started: process_zip up to the loop over the central directory
PutStart(p, name) ==
    /\ pc[p].at = "idle"
    /\ runs < MaxPutRuns
    /\ \A q \in Threads : pc[q].at = "put" => pc[q].name # name
    /\ runs' = runs + 1
    /\ isdir' = isdir \cup {"meta", "data"}
    /\ pc' = [pc EXCEPT ![p] = [at |-> "put", name |-> name, k |-> 1,
                                step |-> "isfile"]]
    /\ UNCHANGED <<sidecars, stats, blobs, writes, exploded, opens,
                   exploded_info, file, sequential, result,
                   handles, objs, fh, fh_lock>>

\* if not path.isfile(data_name), with the directory there at depth 0
PutIsFile(p) ==
    /\ pc[p].at = "put" /\ pc[p].step = "isfile"
    /\ pc[p].k <= Len(Layout[pc[p].name].cdorder)
    /\ pc' = [pc EXCEPT ![p] =
                 IF put_name(pc[p].name, pc[p].k) \in DOMAIN blobs
                 THEN [@ EXCEPT !.k = @ + 1]
                 ELSE [@ EXCEPT !.step = "open"]]
    /\ UNCHANGED <<fsvars, opens, exploded_info, file, sequential, result,
                   handles, objs, fh, fh_lock>>

\* open(data_name, 'wb'): the file is created, or cut to no bytes
PutOpen(p) ==
    /\ pc[p].at = "put" /\ pc[p].step = "open"
    /\ \E n \in {put_name(pc[p].name, pc[p].k)} :
         /\ blobs' = (n :> <<>>) @@ blobs
         /\ writes' = (n :> (IF n \in DOMAIN writes
                             THEN writes[n] + 1 ELSE 1)) @@ writes
    /\ pc' = [pc EXCEPT ![p].step = "write"]
    /\ UNCHANGED <<isdir, sidecars, stats, exploded, runs, opens,
                   exploded_info, file, sequential, result,
                   handles, objs, fh, fh_lock>>

\* d.write(data) and the close of d
PutWrite(p) ==
    /\ pc[p].at = "put" /\ pc[p].step = "write"
    /\ \E n \in {put_name(pc[p].name, pc[p].k)} :
         blobs' = [blobs EXCEPT ![n] =
                      write_at_start(@, put_data(pc[p].name, pc[p].k))]
    /\ pc' = [pc EXCEPT ![p] = [@ EXCEPT !.k = @ + 1, !.step = "isfile"]]
    /\ UNCHANGED <<isdir, sidecars, stats, writes, exploded, runs, opens,
                   exploded_info, file, sequential, result,
                   handles, objs, fh, fh_lock>>

\* the run ends after the last entry: its sidecars are complete
PutFinish(p) ==
    /\ pc[p].at = "put" /\ pc[p].step = "isfile"
    /\ pc[p].k > Len(Layout[pc[p].name].cdorder)
    /\ \E fs \in {process_zip([isdir |-> {}, sidecars |-> <<>>,
                                blobs |-> <<>>, writes |-> <<>>,
                                status |-> "none"], pc[p].name, 0)} :
         /\ sidecars' = (pc[p].name :> fs.sidecars[pc[p].name]) @@ sidecars
         /\ stats' = created(stats, sidecars')
         /\ exploded' = exploded \cup {<<pc[p].name, 0>>}
         /\ result' = [op |-> "explode", name |-> pc[p].name, depth |-> 0,
                       status |-> fs.status,
                       again |-> <<pc[p].name, 0>> \in exploded]
    /\ pc' = [pc EXCEPT ![p] = Idle]
    /\ UNCHANGED <<isdir, blobs, writes, runs, opens,
                   exploded_info, file, sequential,
                   handles, objs, fh, fh_lock>>

NextPut ==
    \/ \E p \in Threads, name \in PutNames : PutStart(p, name)
    \/ \E p \in Threads : PutIsFile(p)
    \/ \E p \in Threads : PutOpen(p)
    \/ \E p \in Threads : PutWrite(p)
    \/ \E p \in Threads : PutFinish(p)

SpecPut == InitBase /\ [][NextPut]_vars

----------------------------------------------------------------------------
(* Claims *)

\* C1: for every archive that explode accepts, reading sequentially from a
\* freshly opened virtual file until a read returns no bytes yields exactly
\* the bytes [0, filesize) of the original archive, in order.
C1_SequentialReadYieldsArchive ==
    (file.open /\ sequential /\ result.op = "read") => ReadIsOriginal

\* C2: on one open handle, after any sequence of earlier seeks and reads, a
\* seek(pos) followed by sequential reads returns the archive bytes starting
\* at pos (stated for the archives whose entries lie back to back from 0).
C2_ReadAfterSeekYieldsArchive ==
    (file.open /\ BackToBack(file.path) /\ result.op = "read")
        => ReadIsOriginal

\* a run of process_zip on a file without end-of-directory marker
NoMarker(f) ==
    \/ Len(f) < END_OF_DIR_size
    \/ /\ RFind(FileRead(f, Len(f) - END_OF_DIR_size, END_OF_DIR_size),
                END_OF_DIR_marker) < 0
       /\ RFind(FileRead(f, Max(Len(f) - (SEARCH_WINDOW + END_OF_DIR_size), 0),
                         Len(f)), END_OF_DIR_marker) < 0

\* the header (filesize, directory_offset) of a jump sidecar
jump_header(jump) == JUMP_ITEM_unpack(FileRead(jump, 0, JUMP_ITEM_size))

\* the blob a stream item names, in the pool of a run with the given depth
blob_of(item, depth) == data_name(hexdigest(item.sha), depth)

RECURSIVE read_rest(_, _)
\* sequential reads of count bytes until one returns nothing or fails
read_rest(F, count) ==
    LET r == readinto(F, count)
    IN  IF ~r.ok THEN [ok |-> FALSE, bytes |-> <<>>]
        ELSE IF r.bytes = <<>> THEN [ok |-> TRUE, bytes |-> <<>>]
        ELSE LET rest == read_rest(r.f, count)
             IN  [ok |-> rest.ok, bytes |-> r.bytes \o rest.bytes]

\* the whole virtual file read through a fresh File from the current base
read_all(name, depth) ==
    LET i == load_info(sidecars[name].jump)
        l == load_stream_item(new_file(name, i.info, depth))
    IN  IF ~i.ok \/ ~l.ok THEN [ok |-> FALSE, bytes |-> <<>>]
        ELSE read_rest(l.f, 40 + MaxRead)

\* C3: after explode, for every jump entry (z_off, s_off) the stream item at
\* s_off written out as header, variable fields, the blob named by its sha
\* and its descriptor equals the archive bytes [z_off, z_off + total), total
\* being LFH size + filename_len + extra_field_len + compressed_size (of the
\* central directory record) + descriptor_len.
C3_StreamItemReproducesEntry ==
    \A name \in ExplodedNames :
        LET J == jump_entries(sidecars[name].jump)
        IN  /\ Len(J) = Len(Layout[name].cdorder)
            /\ \A k \in 1..Len(J), depth \in Depths :
                 <<name, depth>> \in exploded =>
                   LET item  == stream_item(sidecars[name].stream, J[k][2])
                       total == LOCAL_HEADER_size + item.header.filename_len
                                  + item.header.extra_field_len
                                  + Len(CdEntry(name, k).payload)
                                  + item.header.descriptor_len
                   IN  /\ blob_of(item, depth) \in DOMAIN blobs
                       /\ item.zip_header \o blobs[blob_of(item, depth)]
                              \o item.descriptor
                            = Slice(Files[name], J[k][1], J[k][1] + total)

\* an archive with a marked and one with a bare descriptor have been exploded
C3_Witness ==
    /\ {"a", "b"} \subseteq DOMAIN sidecars
    /\ stream_item(sidecars["a"].stream,
                   jump_entries(sidecars["a"].jump)[2][2]).header.descriptor_len
         = 16
    /\ stream_item(sidecars["b"].stream, 0).header.descriptor_len = 12

\* C4: after any sequence of explode runs, for every entry of every exploded
\* archive with compressed payload P a blob named hex(SHA1(P)) exists in the
\* pool and its content is exactly P.
C4_BlobHoldsPayload ==
    \A run \in exploded :
        \A k \in 1..Len(Layout[run[1]].cdorder) :
            LET P    == CdEntry(run[1], k).payload
                name == data_name(hexdigest(sha1(P)), run[2])
            IN  name \in DOMAIN blobs /\ blobs[name] = P

\* the streamed entry of a (its local header carries size 0) has its blob
C4_Witness ==
    /\ <<"a", 0>> \in exploded
    /\ data_name(hexdigest(sha1(P2)), 0) \in DOMAIN blobs

\* C5: once a blob exists under its SHA-1 name no later run writes to it,
\* truncates it or deletes it: it is written once and never changes.
C5_BlobNeverRewritten ==
    [][\A name \in DOMAIN blobs :
          /\ name \in DOMAIN blobs'
          /\ blobs'[name] = blobs[name]
          /\ writes[name] = 1
          /\ writes'[name] = 1]_vars

\* the blob of P1 was there when a second archive containing P1 was exploded
C5_Witness ==
    /\ {<<"a", 0>>, <<"b", 0>>} \subseteq exploded
    /\ writes[data_name(hexdigest(sha1(P1)), 0)] = 1

\* the payloads of the entries of the archives exploded so far
PayloadsSeen ==
    UNION {{CdEntry(run[1], k).payload :
               k \in 1..Len(Layout[run[1]].cdorder)} : run \in exploded}

C7_SecondRunChangesNothing ==
    [][(result'.op = "explode"
          /\ <<result'.name, result'.depth>> \in exploded)
        => (sidecars' = sidecars /\ blobs' = blobs)]_vars

\* the last run repeated an earlier one
C7_Witness == result.op = "explode" /\ result.status = "ok" /\ result.again

\* C8: when the input has no end-of-directory marker, explode returns without
\* error and creates or changes nothing: no directory, sidecar or blob.
C8_NotAZipChangesNothing ==
    [][(result'.op = "explode" /\ NoMarker(Files[result'.name]))
        => /\ result'.status = "notzip"
           /\ isdir' = isdir /\ sidecars' = sidecars
           /\ blobs' = blobs /\ writes' = writes]_vars

\* the noise file was given to explode on an empty base
C8_Witness ==
    /\ result.op = "explode" /\ result.name = "n"
    /\ result.status = "notzip" /\ isdir = {}

\* the offset of the central directory by the layout of a ZIP input file
DirectoryOffset(name) ==
    LocalOffset(Layout[name].prefix, Layout[name].entries,
                Len(Layout[name].entries) + 1)

\* C9: after a successful explode the directory sidecar equals the archive's
\* bytes from directory_offset to the end of the file, so its length is
\* filesize - directory_offset and directory_offset <= filesize.
C9_DirectorySidecarIsTail ==
    \A name \in ExplodedNames :
        LET filesize         == jump_header(sidecars[name].jump)[1]
            directory_offset == jump_header(sidecars[name].jump)[2]
        IN  /\ filesize = Len(Files[name])
            /\ directory_offset = DirectoryOffset(name)
            /\ directory_offset <= filesize
            /\ Len(sidecars[name].dir) = filesize - directory_offset
            /\ sidecars[name].dir
                 = SubSeq(Files[name], directory_offset + 1, filesize)

\* b has been exploded: its sidecar ends with the archive comment
C9_Witness ==
    /\ "b" \in DOMAIN sidecars
    /\ sidecars["b"].dir[Len(sidecars["b"].dir)] = 33

\* the archive-side extent of the stream item at s_off
extent(name, s_off) ==
    LET item  == stream_item(sidecars[name].stream, s_off)
        depth == CHOOSE d \in Depths : <<name, d>> \in exploded
    IN  Len(item.zip_header) + Len(blobs[blob_of(item, depth)])
            + Len(item.descriptor)

\* C10: for a tree loaded from the jump entries of an exploded archive and
\* every offset o with first_LFH <= o < directory_offset, find(o) returns the
\* entry (z, s) whose item covers o, the one with the greatest z_off <= o.
C10_FindReturnsCoveringEntry ==
    \A name \in ExplodedNames :
        LET J     == jump_entries(sidecars[name].jump)
            info  == load_info(sidecars[name].jump).info
            first == CHOOSE z \in {J[k][1] : k \in 1..Len(J)} :
                         \A k \in 1..Len(J) : z <= J[k][1]
        IN  J # <<>> =>
              \A o \in first..(info.directory_offset - 1) :
                  LET loc == find(info.jump_tree, o).location
                  IN  /\ loc[1] <= o
                      /\ o < loc[1] + extent(name, loc[2])
                      /\ \A k \in 1..Len(J) : J[k][1] <= o => J[k][1] <= loc[1]

\* C11: in every jump sidecar written by explode the jump entries are in
\* ascending order of z_off, and z_off of the first entry is the offset of
\* the first local file header of the archive.
C11_JumpEntriesAscending ==
    \A name \in ExplodedNames :
        LET J == jump_entries(sidecars[name].jump)
        IN  /\ \A k \in 1..(Len(J) - 1) : J[k][1] < J[k + 1][1]
            /\ J # <<>> => J[1][1] = Len(Layout[name].prefix)

\* C12 as stated: in every stream item the compressed_size field equals the
\* compressed_size of the entry's central directory record, the number of
\* payload bytes in the blob.
C12_StreamItemHasDirectorySize ==
    \A name \in ExplodedNames :
        LET J == jump_entries(sidecars[name].jump)
        IN  \A k \in 1..Len(J) :
                stream_item(sidecars[name].stream, J[k][2]).header.compressed_size
                    = Len(CdEntry(name, k).payload)

\* C12 amended: the stream item keeps the local header's fields verbatim, so
\* its compressed_size field is the local header's (zero for a streamed
\* entry); the size of the payload to splice in is the length of the blob,
\* which is the compressed_size of the central directory record.
C12_StreamItemKeepsHeaderSize ==
    \A name \in ExplodedNames :
        LET J == jump_entries(sidecars[name].jump)
        IN  \A k \in 1..Len(J), depth \in Depths :
              <<name, depth>> \in exploded =>
                LET item == stream_item(sidecars[name].stream, J[k][2])
                IN  /\ item.header.compressed_size = CdEntry(name, k).lfh_size
                    /\ Len(blobs[blob_of(item, depth)])
                         = Len(CdEntry(name, k).payload)

\* a streamed entry has been exploded: its local header carries size 0 and
\* its blob is not empty
C12_Witness ==
    /\ <<"a", 0>> \in exploded
    /\ CdEntry("a", 2).lfh_size = 0
    /\ Len(blobs[data_name(hexdigest(sha1(CdEntry("a", 2).payload)), 0)]) = 1

\* the descriptor length the four bytes after the payload and bit 3 of the
\* local header's flag call for
ExpectedDescriptorLen(name, k) ==
    IF FileRead(Files[name], AfterPayload(name, k), 4) = DATA_DESCRIPTOR_marker
    THEN Len(DATA_DESCRIPTOR_marker) + DATA_DESCRIPTOR_size
    ELSE IF Bit3(CdEntry(name, k).flag) THEN DATA_DESCRIPTOR_size
    ELSE 0

\* the number of bytes of the stream sidecar that follow the variable fields
\* of item k, up to the next item or to the end of the sidecar
WrittenAfterFields(name, J, k) ==
    (IF k < Len(J) THEN J[k + 1][2] ELSE Len(sidecars[name].stream))
        - (J[k][2] + STREAM_ITEM_size + Len(CdEntry(name, k).name)
             + Len(CdEntry(name, k).extra))

\* C13: for each entry explode stores a descriptor of 16 bytes when the four
\* bytes after the payload are the marker, of 12 bytes starting at the first
\* byte after the payload when they are not and bit 3 of the local header's
\* flag is set, and of 0 bytes otherwise; descriptor_len equals the number of
\* descriptor bytes written after the variable fields.
C13_DescriptorLength ==
    \A name \in ExplodedNames :
        LET J == jump_entries(sidecars[name].jump)
        IN  \A k \in 1..Len(J) :
              LET item == stream_item(sidecars[name].stream, J[k][2])
                  n    == ExpectedDescriptorLen(name, k)
              IN  /\ n \in {0, 12, 16}
                  /\ item.header.descriptor_len = n
                  /\ item.descriptor
                       = FileRead(Files[name], AfterPayload(name, k), n)
                  /\ WrittenAfterFields(name, J, k) = n

\* all three cases were seen: no descriptor and a marked one in a, a bare
\* one in b
C13_Witness ==
    /\ {"a", "b"} \subseteq DOMAIN sidecars
    /\ ExpectedDescriptorLen("a", 1) = 0
    /\ ExpectedDescriptorLen("a", 2) = 16
    /\ ExpectedDescriptorLen("b", 1) = 12
    /\ Len(stream_item(sidecars["b"].stream, 0).descriptor) = 12

\* C19: when one invocation explodes several archives and one of them fails
\* with an I/O or decode error, every archive listed after it is still
\* exploded.
C19_FailureAffectsOneArchive ==
    result.op = "main" =>
        \A k \in 1..Len(result.names) :
            /\ k <= Len(result.statuses)
            /\ result.names[k] \in ZipNames
                 => <<result.names[k], result.depth>> \in exploded

\* no file of the pool was ever removed
Pristine == LostBlob \in DOMAIN blobs /\ writes[LostBlob] = 1

\* the last read of a handler returned the bytes [offset, offset + size) of
\* the original archive, cut at its end
ReadReturnsRange ==
    /\ result.status = "ok"
    /\ result.bytes = FileRead(Files[result.name], result.offset, result.size)

\* a thread is inside read on the handle object x
Reading(t, x) == pc[t].at = "read" /\ pc[t].obj = x

\* between the seek and the read of a call no other call moves the reader:
\* the per-handle lock makes the pair one step
SeekAndReadPair ==
    [][\A t \in Threads :
          (pc[t].at = "read" /\ pc[t].stage = "sought" /\ pc'[t] = pc[t])
              => objs'[pc[t].obj] = objs[pc[t].obj]]_vars

\* C14: when several threads call read on the same handle concurrently, each
\* call returns the bytes of its own (offset, size) range of the archive,
\* never bytes positioned by another call's seek.
C14_SameHandleReadsReturnOwnRange ==
    (/\ result.op = "read"
     /\ Pristine
     /\ BackToBack(result.name)
     /\ result.fh \in DOMAIN handles
     /\ \E t \in Threads : t # result.thread /\ Reading(t, handles[result.fh]))
        => ReadReturnsRange

\* C15: every insertion into and every removal from the open-handle registry,
\* by open, release and destroy, happens while the thread that performs it
\* holds the registry lock.
C15_RegistryChangesUnderLock ==
    [][handles' # handles => fh_lock = result'.thread]_vars

\* a step of a thread on one handle object leaves every other handle object
\* and every loaded ExplodedInfo as they were
HandlesIndependent ==
    [][/\ \A name \in DOMAIN exploded_info :
            result'.op # "destroy" =>
                /\ name \in DOMAIN exploded_info'
                /\ exploded_info'[name] = exploded_info[name]
       /\ \A t \in Threads :
            (pc[t].at = "read" /\ pc'[t] # pc[t]) =>
                \A x \in DOMAIN objs \ {pc[t].obj} :
                    x \in DOMAIN objs' /\ objs'[x] = objs[x]]_vars

\* C16: reads issued concurrently on distinct handles, two handles of one
\* archive included, each return the correct bytes of their range, and a
\* step on one handle changes neither another handle nor the shared
\* ExplodedInfo.
C16_DistinctHandleReadsCorrect ==
    (/\ result.op = "read"
     /\ Pristine
     /\ BackToBack(result.name)
     /\ \E t \in Threads, x \in DOMAIN objs :
           /\ t # result.thread
           /\ Reading(t, x)
           /\ result.fh \in DOMAIN handles => x # handles[result.fh]
           /\ objs[x].reader.raw.path = result.name)
        => ReadReturnsRange

\* C20: a failed read fails that request only: the handle stays in the
\* registry, the cached ExplodedInfo is kept, and a read on the handle that
\* completes while every blob is in the pool does not fail.
C20_FailureAffectsOneRequest ==
    [][\A t \in Threads :
          (pc[t].at = "read" /\ pc'[t] = Idle) =>
              /\ handles' = handles
              /\ exploded_info' = exploded_info
              /\ LostBlob \in DOMAIN blobs => result'.status = "ok"]_vars

\* C17: a seek to an offset outside [0, filesize], negative or greater than
\* filesize, is rejected with an error and leaves the cursor position and
\* the state as they were.
C17_InvalidSeekRejected ==
    [][(/\ file.open
        /\ result'.op = "seek"
        /\ result'.pos \notin 0..file.info.filesize)
          => (/\ result'.status = "error"
              /\ file'.cursor = file.cursor
              /\ file'.state = file.state)]_vars

\* the operations C18 lists as writing
WritingOps ==
    {"create", "mkdir", "mknod", "write", "truncate", "unlink", "rename",
     "rmdir", "link", "symlink"}

\* C18: every writing operation offered on the mount (create, mkdir, mknod,
\* write, truncate, unlink, rename, rmdir, link, symlink) fails with
\* 'operation not supported' and leaves the set of virtual archive names
\* and the bytes of every virtual archive as they were.
C18_WritingOpsNotSupported ==
    [][result'.op \in WritingOps =>
          /\ result'.status = "ENOTSUP"
          /\ readdir' = readdir
          /\ sidecars' = sidecars
          /\ blobs' = blobs]_vars

\* C21: when chmod or chown fails after it changed one or two of the three
\* sidecars and no restoring call raises, every sidecar ends with the mode,
\* the owner and the group it had before the call; the operation reports
\* failure whether or not a restoring call raised.
C21_FailedChangeIsRolledBack ==
    [][(result'.op \in {"chmod", "chown"} /\ result'.status = "EACCES"
          /\ result'.raised # "OSError")
         => stats' = stats]_vars

\* the part of C21 about chmod alone
ChmodIsRolledBack ==
    [][(result'.op = "chmod" /\ result'.status = "EACCES"
          /\ result'.raised # "OSError")
         => stats' = stats]_vars

\* no run is between the steps of a put
NoPutUnderWay == \A p \in Threads : pc[p].at = "put" => pc[p].step = "isfile"

\* when no put is under way every blob holds the payload its name is the
\* digest of
FinalContentIsPayload ==
    NoPutUnderWay =>
        \A n \in DOMAIN blobs : n = data_name(hexdigest(sha1(blobs[n])), 0)

\* every file in the pool holds the payload its name is the digest of
BlobsAreComplete ==
    \A n \in DOMAIN blobs : n = data_name(hexdigest(sha1(blobs[n])), 0)

\* C22: blob put is an atomic create-if-absent: while explode runs put the
\* same payload into one data/ root concurrently, a run whose isfile test
\* finds the file under hex(sha), and so skips its write, finds it with
\* the complete payload, and the final content is the payload.
C22_PutIsAtomic ==
    [][/\ \A p \in Threads :
            (/\ pc[p].at = "put" /\ pc[p].step = "isfile"
             /\ pc'[p].at = "put" /\ pc'[p].k = pc[p].k + 1)
                => blobs[put_name(pc[p].name, pc[p].k)]
                       = put_data(pc[p].name, pc[p].k)
       /\ FinalContentIsPayload']_vars

\* z_off of the jump entry of the stream item a cursor has loaded
loaded_z(F) ==
    CHOOSE z \in UNION {{J[k][1] : k \in {j \in 1..Len(J) :
                                             J[j][2] = F.stream_offset}} :
                        J \in {jump_entries(sidecars[F.path].jump)}} : TRUE

\* the position within the component the cursor is in, as its fields say
component_pos(F) ==
    IF F.state = HEADER THEN F.offset
    ELSE IF F.state = DATA THEN F.data_pos
    ELSE IF F.state = DESCRIPTOR THEN F.offset
    ELSE F.dir_pos

\* the position within that component that the logical cursor calls for
cursor_pos(F) ==
    IF F.state = DIRECTORY THEN F.cursor - F.info.directory_offset
    ELSE CHOOSE pos \in
             {IF F.state = HEADER THEN F.cursor - z
              ELSE IF F.state = DATA THEN F.cursor - z - Len(F.zip_header)
              ELSE F.cursor - z - Len(F.zip_header) - F.data_len :
              z \in {loaded_z(F)}} : TRUE

\* C23: for an archive whose entries lie back to back from offset 0 in
\* central-directory order, after any sequence of seek and read calls on one
\* cursor the position within the component (header offset, blob position,
\* descriptor offset, directory position) matches the logical cursor.
C23_ComponentMatchesCursor ==
    (file.open /\ BackToBack(file.path))
        => component_pos(file) = cursor_pos(file)

\* the branches one read call runs, the retried ones included: the File
\* before and after each and whether the branch returned; into selects
\* readinto, otherwise read
RECURSIVE read_steps(_, _, _)
read_steps(F, count, into) ==
    UNION {{<<F, r.f, r.ok>>}
             \cup (IF r.ok /\ r.bytes = <<>> /\ F.state \in {DATA, DESCRIPTOR}
                   THEN read_steps(r.f, count, into) ELSE {}) :
           r \in {IF into THEN readinto_branch(F, count)
                   ELSE read_branch(F, count)}}

\* the descriptor of F was read to its end on the way to G
DescriptorExhausted(F, G) ==
    /\ F.offset <= Len(F.descriptor)
    /\ G.cursor = F.cursor + (Len(F.descriptor) - F.offset)

\* G is HEADER of the stream item that follows the one F has loaded: the
\* stream offset is where the stream sidecar stood, the blob is closed, and
\* the header is that of the item there; where the stream sidecar holds no
\* further item the branch raised in _load_stream_item instead
NextStreamItem(F, G, ok) ==
    /\ G.stream_offset = F.stream_pos
    /\ G.offset = 0
    /\ ~G.data
    /\ ok = (F.stream_pos + STREAM_ITEM_size <= Len(sidecars[F.path].stream))
    /\ ok => /\ G.zip_header
                   = stream_item(sidecars[F.path].stream,
                                 F.stream_pos).zip_header
             /\ G.descriptor
                   = stream_item(sidecars[F.path].stream,
                                 F.stream_pos).descriptor

\* the state changes a read may make, each with its condition
StateChangeAllowed(F, G, ok) ==
    \/ G.state = F.state
    \/ /\ F.state = HEADER /\ G.state = DATA
       /\ G.offset >= Len(F.zip_header)
       /\ G.cursor = F.cursor + (Len(F.zip_header) - F.offset)
    \/ /\ F.state = DATA /\ G.state = DESCRIPTOR
       /\ G.data /\ G.data_pos >= G.data_len
    \/ /\ F.state = DESCRIPTOR /\ G.state = HEADER
       /\ DescriptorExhausted(F, G)
       /\ G.cursor < G.info.directory_offset
       /\ NextStreamItem(F, G, ok)
    \/ /\ F.state = DESCRIPTOR /\ G.state = DIRECTORY
       /\ DescriptorExhausted(F, G)
       /\ G.cursor >= G.info.directory_offset
       /\ G.dir_pos = 0
       /\ ~G.data

\* C24: on a handle that was only read since its open, every branch a read
\* or readinto call runs leaves the state or moves it HEADER to DATA with the
\* header exhausted, DATA to DESCRIPTOR with the blob at its end, DESCRIPTOR
\* to HEADER of the next stream item with the descriptor exhausted below the
\* directory, or DESCRIPTOR to DIRECTORY with the descriptor exhausted at the
\* directory, the directory sidecar at 0 and the blob closed; DIRECTORY is
\* never left
C24_ReadsFollowStateCycle ==
    (file.open /\ sequential) =>
        \A count \in ReadCounts : \A into \in BOOLEAN :
            /\ \A step \in read_steps(file, count, into) :
                   StateChangeAllowed(step[1], step[2], step[3])
            /\ \E step \in read_steps(file, count, into) :
                   step[2] = (IF into THEN readinto(file, count)
                              ELSE read(file, count)).f

\* a read without a seek before it has crossed from the body of an archive
\* with entries into its directory
ReadReachedDirectory ==
    /\ file.open /\ sequential
    /\ file.state = DIRECTORY
    /\ result.op = "read" /\ result.status = "ok"
    /\ result.at < file.info.directory_offset
    /\ file.cursor >= file.info.directory_offset

RECURSIVE retries(_, _)
\* how often one readinto call of count > 0 bytes calls itself again
retries(F, count) ==
    CHOOSE n \in
        {IF r.ok /\ r.bytes = <<>> /\ F.state \in {DATA, DESCRIPTOR}
         THEN 1 + retries(r.f, count) ELSE 0 :
         r \in {readinto_branch(F, count)}} : TRUE

\* a read at the end of the virtual file: DIRECTORY, no bytes, the cursor at
\* filesize
ReadAtEnd ==
    /\ file.open
    /\ file.state = DIRECTORY
    /\ result.op = "read" /\ result.status = "ok" /\ result.bytes = <<>>
    /\ file.cursor = file.info.filesize

\* a readinto call retries at most twice
RetriesAtMostTwice ==
    file.open => \A count \in ReadCounts : retries(file, count) <= 2

\* C25: a handle that is opened and then only read, with any counts above
\* zero, reaches DIRECTORY and a read that returns no bytes with the cursor
\* at filesize; and a read call retries at most twice
C25_ReadsReachTheEnd ==
    /\ (file.open ~> ReadAtEnd)
    /\ []RetriesAtMostTwice

\* what a raw read of count bytes at the cursor of F owes its caller: between
\* 1 and count bytes below filesize, no error, and no bytes only at or
\* beyond filesize
RawReadIsShortOnlyAtEnd(F, r, count) ==
    /\ r.ok
    /\ Len(r.bytes) <= count
    /\ F.cursor < F.info.filesize => Len(r.bytes) >= 1
    /\ r.bytes = <<>> => F.cursor >= F.info.filesize

\* C26: on every handle state, read and readinto with a count above zero
\* return 1..count bytes while the cursor is below filesize, return no bytes
\* only at or beyond filesize, and never raise
C26_RawReadReturnsBytesBelowEnd ==
    file.open =>
        \A count \in ReadCounts :
            /\ RawReadIsShortOnlyAtEnd(file, readinto(file, count), count)
            /\ RawReadIsShortOnlyAtEnd(file, read(file, count), count)

\* seek(pos) called again right after seek(pos) leaves what the first left
SeekTwiceIsSeekOnce ==
    file.open =>
        \A pos \in SeekTargets(file.path) :
            \A once \in {seek(file, pos)} : seek(once.f, pos) = once

\* C27: a seek to the offset the cursor is at returns that offset and leaves
\* every field of the File as it was: state, offset, stream_offset, header,
\* descriptor, the open blob and the positions of the blob, the stream and
\* the directory sidecar; and seek(pos) twice is seek(pos) once
C27_SeekToCursorChangesNothing ==
    /\ [][(file.open /\ result'.op = "seek" /\ ~result'.moved)
            => /\ file' = file
               /\ result'.status = "ok"
               /\ result'.pos = file.cursor]_vars
    /\ []SeekTwiceIsSeekOnce

\* a seek to the cursor's offset was made with the blob open in the middle of
\* a component
SeekToCursorMade ==
    /\ file.open
    /\ result.op = "seek" /\ ~result.moved
    /\ file.data
    /\ file.state \in {HEADER, DATA, DESCRIPTOR}
    /\ file.cursor > 0

\* the File that seek(pos) owes for an offset in the body: with (z, s) the
\* location find returns and add = pos - z, the item at s of the stream
\* sidecar is loaded and the state is the component add falls into
SeekBodyPost(F, G, pos) ==
    \E loc \in {find(F.info.jump_tree, pos).location} :
    \E item \in {stream_item(sidecars[F.path].stream, loc[2])} :
    \E blob \in {data_name(hexdigest(item.sha), F.depth)} :
    \E add \in {pos - loc[1]} :
        /\ G.stream_offset = loc[2]
        /\ G.zip_header = item.zip_header
        /\ G.descriptor = item.descriptor
        /\ G.data_name = blob
        /\ IF add < Len(item.zip_header)
           THEN G.state = HEADER /\ G.offset = add
           ELSE IF add - Len(item.zip_header) < Len(blobs[blob])
           THEN /\ G.state = DATA
                /\ G.data
                /\ G.data_pos = add - Len(item.zip_header)
           ELSE /\ G.state = DESCRIPTOR
                /\ G.offset = add - Len(item.zip_header) - Len(blobs[blob])

\* the File that seek(pos) owes for an offset in the directory
SeekDirectoryPost(F, G, pos) ==
    /\ G.state = DIRECTORY
    /\ ~G.data
    /\ G.stream_offset = None
    /\ G.dir_pos = pos - F.info.directory_offset

\* C28: a seek to an offset other than the cursor's, at or above 0 and below
\* filesize, returns and leaves the cursor at pos with DIRECTORY, no blob,
\* stream_offset unset and the directory sidecar at pos - directory_offset
\* when pos >= directory_offset, and otherwise with the item found loaded
\* and HEADER, DATA or DESCRIPTOR positioned at the rest of pos
C28_SeekSetsComponentOfOffset ==
    [][(/\ file.open /\ result'.op = "seek" /\ result'.moved
        /\ result'.pos >= 0 /\ result'.pos < file.info.filesize)
        => /\ result'.status = "ok"
           /\ file'.cursor = result'.pos
           /\ IF result'.pos >= file.info.directory_offset
              THEN SeekDirectoryPost(file, file', result'.pos)
              ELSE SeekBodyPost(file, file', result'.pos)]_vars

\* a seek has moved the cursor into a descriptor, behind its first byte
SeekIntoDescriptorMade ==
    /\ file.open
    /\ result.op = "seek" /\ result.moved /\ result.status = "ok"
    /\ file.state = DESCRIPTOR
    /\ file.offset > 0
    /\ file.cursor < file.info.directory_offset

\* the header and the descriptor F has loaded are those of the item at
\* stream_offset of its stream sidecar
LoadedItemIsAtStreamOffset(F) ==
    /\ F.stream_offset # None
    /\ F.stream_offset + STREAM_ITEM_size <= Len(sidecars[F.path].stream)
    /\ \E item \in {stream_item(sidecars[F.path].stream, F.stream_offset)} :
           /\ F.zip_header = item.zip_header
           /\ F.descriptor = item.descriptor

\* C29: outside DIRECTORY stream_offset is the offset, in the stream
\* sidecar, of the item whose header and descriptor are loaded; in DIRECTORY
\* it is unset, so that a seek back into the body reloads
C29_StreamOffsetNamesLoadedItem ==
    file.open =>
        IF file.state = DIRECTORY THEN file.stream_offset = None
        ELSE LoadedItemIsAtStreamOffset(file)

\* the blob F has open is the one named by the SHA-1 of the item whose
\* header and descriptor F has loaded
OpenBlobIsOfLoadedItem(F) ==
    \E e \in {jump_entries(sidecars[F.path].jump)[k] :
                 k \in 1..Len(jump_entries(sidecars[F.path].jump))} :
    \E item \in {stream_item(sidecars[F.path].stream, e[2])} :
        /\ F.zip_header = item.zip_header
        /\ F.descriptor = item.descriptor
        /\ F.data_file = data_name(hexdigest(item.sha), F.depth)

\* between F and G a blob was opened
BlobOpened(F, G) ==
    G.data /\ (~F.data \/ G.data_file # F.data_file)

\* C30: a handle never opens a blob while it has one open; it has none open
\* right after open() and none in DIRECTORY; a branch of a read opens a blob
\* only on its way from HEADER to DATA and a seek only for an offset behind
\* the header of the item it finds; and the open blob is the one named by
\* the SHA-1 of the loaded item
C30_OneBlobOfLoadedItem ==
    file.open =>
        /\ ~file.leaked
        /\ result.op = "open" => ~file.data
        /\ file.state = DIRECTORY => ~file.data
        /\ file.data => OpenBlobIsOfLoadedItem(file)
        /\ \A count \in ReadCounts : \A into \in BOOLEAN :
               \A step \in read_steps(file, count, into) :
                   BlobOpened(step[1], step[2])
                       => step[1].state = HEADER /\ step[2].state = DATA
        /\ \A pos \in SeekTargets(file.path) :
               \A r \in {seek(file, pos)} :
                   BlobOpened(file, r.f)
                       => /\ r.f.state \in {DATA, DESCRIPTOR}
                          /\ pos - find(file.info.jump_tree, pos).location[1]
                                >= Len(r.f.zip_header)

\* a handle is in DATA with the blob of an item behind the first open
SecondBlobOpen ==
    /\ file.open
    /\ file.data
    /\ file.state = DATA
    /\ file.stream_offset > 0

RECURSIVE leaves(_)
\* the payloads of the leaves of a tree, left to right
leaves(tree) ==
    IF tree.kind = "leaf" THEN <<tree.location>>
    ELSE leaves(tree.left[1]) \o leaves(tree.right[1])

RECURSIVE SearchTree(_)
\* every internal node's key is the smallest z_off of its right subtree, and
\* every z_off of its left subtree is below it
SearchTree(tree) ==
    tree.kind = "node" =>
        /\ \A k \in 1..Len(leaves(tree.right[1])) :
               tree.key <= leaves(tree.right[1])[k][1]
        /\ \E k \in 1..Len(leaves(tree.right[1])) :
               tree.key = leaves(tree.right[1])[k][1]
        /\ \A k \in 1..Len(leaves(tree.left[1])) :
               leaves(tree.left[1])[k][1] < tree.key
        /\ SearchTree(tree.left[1])
        /\ SearchTree(tree.right[1])

\* C31: the tree load builds from N >= 1 jump entries strictly ascending in
\* z_off has the entries as its leaves, left to right in input order, and
\* every internal node's key is the smallest z_off of its right subtree and
\* above every z_off of its left subtree
C31_LoadBuildsSearchTree ==
    result.op \in {"load", "find"} =>
        /\ result.tree.kind # "none"
        /\ leaves(result.tree) = result.items
        /\ SearchTree(result.tree)

\* a tree was loaded from an odd number of entries above three: a lone
\* trailing tree is carried up
OddTreeLoaded ==
    /\ result.op = "load"
    /\ Len(result.items) = MaxEntries
    /\ result.tree.kind = "node"
    /\ result.tree.right[1].kind = "leaf"

RECURSIVE CeilLog2(_)
\* the least d with 2^d >= n, for n >= 1
CeilLog2(n) == IF n <= 1 THEN 0 ELSE 1 + CeilLog2((n + 1) \div 2)

RECURSIVE height(_)
\* the depth of the deepest leaf
height(tree) ==
    IF tree.kind = "leaf" THEN 0
    ELSE 1 + Max(height(tree.left[1]), height(tree.right[1]))

RECURSIVE visited(_, _)
\* the number of nodes find(offset) visits, the leaf included
visited(tree, offset) ==
    IF tree.kind = "leaf" THEN 1
    ELSE IF offset < tree.key THEN 1 + visited(tree.left[1], offset)
    ELSE 1 + visited(tree.right[1], offset)

RECURSIVE passes(_)
\* the number of passes the outer loop of load makes
passes(last_level) ==
    1 + (IF Len(pair_level(last_level)) > 1
         THEN passes(pair_level(last_level)) ELSE 0)

\* C32: the tree load builds from N >= 1 entries has every leaf at depth at
\* most ceil(log2 N), find visits at most ceil(log2 N) + 1 nodes for every
\* offset, and load ends after at most ceil(log2 N) passes of its outer loop
\* (one pass for one entry)
C32_LoadBuildsBalancedTree ==
    result.op \in {"load", "find"} =>
        \E bound \in {CeilLog2(Len(result.items))} :
            /\ height(result.tree) <= bound
            /\ \A offset \in 0..(MaxOffset + 1) :
                   visited(result.tree, offset) <= bound + 1
            /\ passes([k \in 1..Len(result.items) |->
                          [tree |-> Leaf(result.items[k]),
                           min |-> result.items[k][1]]]) <= Max(bound, 1)

\* find has walked from the root of the largest tree to one of its deepest
\* leaves
DeepestLeafFound ==
    /\ result.op = "find"
    /\ Len(result.items) = MaxEntries
    /\ visited(result.tree, result.offset) = CeilLog2(MaxEntries) + 1


----------------------------------------------------------------------------
(* process_file and the archive's read position *)

RECURSIVE CdRecordAt(_, _)
\* the archive offset of central directory record k by the layout
CdRecordAt(name, k) ==
    IF k = 1 THEN DirectoryOffset(name)
    ELSE CdRecordAt(name, k - 1)
             + Len(CentralBytes(CdEntry(name, k - 1), CdOffset(name, k - 1)))

\* the state of a walk that has just read the fixed part of the record at
\* archive offset at
AfterRecord(at) ==
    [jump |-> <<>>, stream |-> <<>>, dir |-> <<>>, ok |-> TRUE,
     tell |-> at + CENTRAL_DIR_size, blobs |-> blobs, writes |-> writes]

\* C33: process_file leaves the archive's read position where it was on
\* entry, just behind the fixed part of the central directory record, so the
\* walk of process_zip reads consecutive central directory records and
\* their trails wherever the local headers lie: entry k of the jump sidecar
\* carries the offset of record k and the directory sidecar holds record k
\* with its trail at the record's place.
C33_ProcessFileKeepsReadPosition ==
    \A run \in exploded :
        \E name \in {run[1]} :
            /\ Len(jump_entries(sidecars[name].jump))
                   = Len(Layout[name].cdorder)
            /\ \A k \in 1..Len(Layout[name].cdorder) :
                 \E at \in {CdRecordAt(name, k)} :
                 \E record \in {CentralBytes(CdEntry(name, k),
                                             CdOffset(name, k))} :
                    /\ process_file(Files[name],
                           CENTRAL_DIR_unpack(
                               FileRead(Files[name], at, CENTRAL_DIR_size)),
                           AfterRecord(at), run[2]).tell
                         = at + CENTRAL_DIR_size
                    /\ jump_entries(sidecars[name].jump)[k][1]
                         = CdOffset(name, k)
                    /\ Slice(sidecars[name].dir,
                             at - DirectoryOffset(name),
                             at - DirectoryOffset(name) + Len(record))
                         = record

\* explode has completed on the archive whose central directory lists the
\* second entry first, and on the archive with a stub in front
ReorderedArchiveExploded ==
    /\ result.op = "explode" /\ result.name = "d" /\ result.status = "ok"
    /\ "c" \in ExplodedNames

----------------------------------------------------------------------------
(* The jump sidecar as a map from the directory to the stream sidecar *)

\* the number of bytes one entry contributes to the stream sidecar
StreamItemLen(name, k) ==
    STREAM_ITEM_size + Len(CdEntry(name, k).name)
        + Len(CdEntry(name, k).extra) + ExpectedDescriptorLen(name, k)

RECURSIVE StreamOffset(_, _)
\* the stream offset of the item of central directory record k: 0 for the
\* first, the previous offset plus the previous item's length for the others
StreamOffset(name, k) ==
    IF k = 1 THEN 0
    ELSE StreamOffset(name, k - 1) + StreamItemLen(name, k - 1)

\* C34: the jump sidecar written by explode is the header (filesize,
\* directory_offset) followed by exactly total_entries entries in the order
\* the central directory records are visited; entry k is (offset field of
\* record k, stream offset at which item k starts); the first s_off is 0 and
\* each next one is the previous plus the stream item record size plus that
\* item's filename_len + extra_field_len + descriptor_len, so the s_off
\* values increase strictly and each is the start of a stream item.
C34_JumpSidecarMapsRecordsToStream ==
    \A name \in ExplodedNames :
        \E J \in {jump_entries(sidecars[name].jump)} :
            /\ jump_header(sidecars[name].jump)
                   = <<Len(Files[name]), DirectoryOffset(name)>>
            /\ Len(sidecars[name].jump)
                   = JUMP_ITEM_size * (1 + find_end_of_dir(Files[name])
                                               .eoa.total_entries)
            /\ Len(J) = Len(Layout[name].cdorder)
            /\ \A k \in 1..Len(J) :
                 /\ J[k] = <<CdOffset(name, k), StreamOffset(name, k)>>
                 /\ k < Len(J) => J[k][2] < J[k + 1][2]
                 /\ \E item \in {stream_item(sidecars[name].stream, J[k][2])} :
                      /\ item.zip_header
                           = Slice(Files[name], CdOffset(name, k),
                                   CdOffset(name, k) + LOCAL_HEADER_size)
                               \o CdEntry(name, k).name
                               \o CdEntry(name, k).extra
                      /\ J[k][2] + STREAM_ITEM_size + Len(item.zip_header)
                             - LOCAL_HEADER_size + Len(item.descriptor)
                           = IF k < Len(J) THEN J[k + 1][2]
                             ELSE Len(sidecars[name].stream)

\* explode has written the jump sidecar of the archive whose first item
\* carries no descriptor and an empty extra field and whose second item
\* starts behind it
TwoJumpEntriesWritten ==
    /\ result.op = "explode" /\ result.name = "a" /\ result.status = "ok"
    /\ Len(jump_entries(sidecars["a"].jump)) = 2
    /\ jump_entries(sidecars["a"].jump)[2][2] = STREAM_ITEM_size + 1

----------------------------------------------------------------------------
(* The handle-id counter and the registry *)

\* the counter goes back to zero only in a step that finds and leaves the
\* registry empty
ResetOnlyWhenEmpty ==
    (fh # 0 /\ fh' = 0) => (DOMAIN handles = {} /\ DOMAIN handles' = {})

\* the key open stores its pair under is not the key of a live handle, and
\* the id it returns, if still in the registry, names the pair it stored
OpenIdIsFresh ==
    \A t \in Threads :
        /\ (pc[t].at = "open" /\ pc[t].step = "insert"
               /\ pc'[t] # pc[t])
             => (fh \notin DOMAIN handles /\ pc[t].fh = fh)
        /\ (pc[t].at = "open" /\ pc[t].step = "return"
               /\ pc'[t] # pc[t] /\ pc[t].fh \in DOMAIN handles)
             => handles[pc[t].fh] = opens

\* C35 as stated: under every interleaving of open, release, _release and
\* _reset the counter is set back to zero only while the registry is empty,
\* every id in the registry is below the counter, and open never returns an
\* id that is the key of another live handle.
C35_CounterAboveRegistry ==
    /\ [][ResetOnlyWhenEmpty /\ OpenIdIsFresh]_vars
    /\ [](\A h \in DOMAIN handles : h < fh)

\* C35, amended: the id open has just stored equals the counter until open
\* has advanced it; every id in the registry is at most the counter, and
\* below it whenever the registry lock is free.
C35_CounterAboveRegistryWhenUnlocked ==
    /\ [][ResetOnlyWhenEmpty /\ OpenIdIsFresh]_vars
    /\ [](\A h \in DOMAIN handles :
            /\ h <= fh
            /\ h = fh => \E t \in Threads :
                            /\ fh_lock = t /\ pc[t].at = "open"
                            /\ pc[t].step = "incr" /\ pc[t].fh = h)

\* an open has returned an id after the counter went back to zero, while the
\* other thread is inside _release or _reset
OpenReturnedAfterReset ==
    /\ result.op = "open" /\ result.status = "ok" /\ result.fh = 0
    /\ opens >= 2 /\ fh = 1
    /\ \E t \in Threads : pc[t].at \in Sweeps

----------------------------------------------------------------------------
(* An open that fails *)

\* a read of the first byte through every handle of a registry succeeds
HandlesWork(h, o) ==
    \A k \in DOMAIN h :
        \E x \in {reader_seek(o[h[k]].reader, 0)} :
            /\ x.ok
            /\ \E y \in {reader_read(x.r, 1)} :
                 /\ y.ok
                 /\ y.bytes = Slice(Files[x.r.raw.path], 0, 1)

\* C36: when open fails, because a sidecar is missing or the first stream
\* item does not decode, no handle is added to the registry, the handle-id
\* counter is not advanced (neither by the test of the registry nor by the
\* failing File()), the registry lock is released and the handles already
\* open keep working.
C36_FailedOpenLeavesRegistry ==
    [][\A t \in Threads :
          /\ (pc[t].at = "open" /\ pc[t].step = "check" /\ pc'[t] # pc[t])
               => (fh' <= fh /\ handles' = handles)
          /\ (pc[t].at = "open" /\ pc[t].step = "file" /\ pc'[t] = Idle)
               => /\ result'.op = "open" /\ result'.status = "error"
                  /\ handles' = handles /\ objs' = objs
                  /\ fh' = fh
                  /\ fh_lock = t /\ fh_lock' = 0
                  /\ HandlesWork(handles', objs')]_vars

\* an open has failed while a handle was open, on the file without sidecars
\* and on the archive whose stream sidecar is empty
OpenFailedBesideHandle ==
    /\ result.op = "open" /\ result.status = "error"
    /\ DOMAIN handles # {} /\ fh_lock = 0
    /\ "e" \in DOMAIN exploded_info
    /\ opens = MaxRegOpens

----------------------------------------------------------------------------
(* The stateless read of the older variant and the cursor *)

\* C37: the stateless read(filename, offset, count) of the older variant and
\* the cursor, File.seek(offset) followed by reading count bytes, return the
\* same bytes for every offset in [0, filesize) and every count > 0: the
\* bytes original[offset : offset + count], also when offset falls inside
\* an entry's payload or descriptor.
C37_StatelessReadEqualsCursor ==
    (result.op = "read" /\ result.by \in {"stateless", "cursor"})
        => /\ result.status = "ok"
           /\ result.bytes = Slice(Files[result.name], result.offset,
                                   result.offset + result.count)
           /\ result.by = "cursor" => result.bytes = result.stateless

\* the stateless read of one byte at the second byte of the first payload of
\* archive a returned the first byte of the payload
StatelessReadInsidePayload ==
    /\ result.op = "read" /\ result.by = "stateless" /\ result.name = "a"
    /\ result.offset = AfterPayload("a", 1) - 1 /\ result.count = 1
    /\ result.bytes = <<11>>
    /\ Files["a"][result.offset + 1] = 12

----------------------------------------------------------------------------
(* The archive without entries *)

\* C38: an archive with zero entries is handled end to end: explode writes a
\* jump sidecar of the header only, an empty stream sidecar and a directory
\* sidecar equal to the whole archive; load on no entries returns no tree;
\* the open of the virtual file succeeds and reading it returns the bytes of
\* the original.
C38_ZeroEntryArchiveServed ==
    /\ "e" \in ExplodedNames
         => /\ sidecars["e"].jump
                 = JUMP_ITEM_pack(Len(Files["e"]), 0)
            /\ sidecars["e"].stream = <<>>
            /\ sidecars["e"].dir = Files["e"]
            /\ load_info(sidecars["e"].jump).ok
            /\ load_info(sidecars["e"].jump).info.jump_tree = NoTree
    /\ (result.op = "open" /\ result.name = "e") => result.status = "ok"
    /\ (file.open /\ file.path = "e" /\ result.op = "read")
         => ReadIsOriginal

\* the open of the virtual file of the archive without entries has raised
ZeroEntryOpenRaised ==
    /\ "e" \in ExplodedNames
    /\ result.op = "open" /\ result.name = "e" /\ result.status = "error"
    /\ ~file.open

----------------------------------------------------------------------------
(* The end-of-directory record in front of a comment *)

\* the end-of-directory record the archive was written with
TrueEndRecord(f, comment) ==
    END_OF_DIR_unpack(FileRead(f, Len(f) - Len(comment) - END_OF_DIR_size,
                               END_OF_DIR_size))

\* C39: for an archive whose end-of-directory record is followed by a
\* comment of any length from 1 to 65535 bytes, explode locates the archive's
\* true end-of-directory record by the backward search of the last
\* 65536 + END_OF_DIR.size bytes, records filesize as the full length of the
\* file, and uses that record's directory_offset and total_entries.
C39_CommentedArchiveLocated ==
    (result.op = "explode" /\ Len(result.comment) \in 1..MaxCommentLen)
        => \E f \in {CommentedZip(result.name, result.comment)} :
             /\ find_end_of_dir(f).status = "ok"
             /\ find_end_of_dir(f).eoa = TrueEndRecord(f, result.comment)
             /\ result.status = "ok"
             /\ jump_header(sidecars[result.name].jump)
                    = <<Len(f), DirectoryOffset(result.name)>>
             /\ Len(jump_entries(sidecars[result.name].jump))
                    = Len(Layout[result.name].cdorder)
             /\ sidecars[result.name].dir
                    = FileRead(f, DirectoryOffset(result.name), Len(f))

\* explode has met a comment of four bytes that is the marker: the search
\* found it and the unpack of the four bytes behind it raised
MarkerInCommentFound ==
    /\ result.op = "explode" /\ result.name = "a"
    /\ result.comment = END_OF_DIR_marker
    /\ result.status = "error"
    /\ "a" \notin DOMAIN sidecars
====
